---- MODULE Spec2Model ----
(***************************************************************************)
(* A model of the transaction memory pool of core/src/miner/mem_pool.rs:   *)
(* admission (add), removal (remove, remove_old), limit enforcement,       *)
(* recovery from the backup store, and the indexes they keep in step.      *)
(***************************************************************************)
EXTENDS Integers, Sequences, FiniteSets, TLC

(***************************************************************************)
(* Bounds of the model.                                                    *)
(***************************************************************************)
MaxSeq == 2
MaxBatch == 2
MaxId == 2
MaxIdOne == 3

Signers == {"s1", "s2", "s3", "s4"}
Seqs == 0..MaxSeq
Fees == {7, 8, 9}
Quantities == {0, 1}
Balances == {0, 1000}
Origins == {"Local", "External"}

(***************************************************************************)
(* Program constants and the configuration handed to with_limits.          *)
(***************************************************************************)
DEFAULT_POOLING_PERIOD == 128
FeeBumpShift == 3
CountLimit == 1
MemoryLimit == 5
TestLimit == 8192

\* Call instants (block number, timestamp): the residency thresholds of
\* remove_old are crossed between them, and both the block number and the
\* timestamp can run backwards from one call to the next.
Instants ==
  { [block |-> 0, time |-> 0],
    [block |-> (DEFAULT_POOLING_PERIOD \div 8) + 1, time |-> 1] }

(***************************************************************************)
(* Transactions.  The hash of a transaction is the transaction itself      *)
(* (an injective hash).                                                    *)
(***************************************************************************)
AllTxs == [signer : Signers, seq : Seqs, fee : Fees, quantity : Quantities]

\* The transactions submitted, none of which transfers anything: s1 bids 8
\* at every seq and 9 at seq 1; s2 bids 9 at seq 0.
Txs ==
  { tx \in AllTxs :
      /\ tx.quantity = 0
      /\ \/ tx.signer = "s1" /\ (tx.fee = 8 \/ (tx.seq = 1 /\ tx.fee = 9))
         \/ tx.signer = "s2" /\ tx.seq = 0 /\ tx.fee = 9 }

\* Position of a hash in the byte order of hashes.
SignerRank(s) == IF s = "s1" THEN 0 ELSE IF s = "s2" THEN 1 ELSE IF s = "s3" THEN 2 ELSE 3

HashRank(h) == SignerRank(h.signer) + 4 * h.quantity + 8 * h.fee + 128 * h.seq

\* Length of the RLP encoding of an unsigned integer field.
IntLen(n) == IF n < 128 THEN 1 ELSE IF n < 256 THEN 2 ELSE IF n < 65536 THEN 3 ELSE 4

\* Length of the RLP encoding of a transaction (seq, fee and the payload).
RlpLen(tx) == IntLen(tx.seq) + IntLen(tx.fee) + 1

\* MemPoolItem::cost: the fee plus the quantity transferred.
Cost(tx) == tx.fee + tx.quantity

MemPoolItem(tx, origin, blk, ts, id) ==
  [tx |-> tx, origin |-> origin, inserted_block_number |-> blk,
   inserted_timestamp |-> ts, insertion_id |-> id]

(***************************************************************************)
(* Partial maps (HashMap / BTreeMap).                                      *)
(***************************************************************************)
EmptyMap == [x \in {} |-> 0]
Put(f, k, v) == [x \in (DOMAIN f) \cup {k} |-> IF x = k THEN v ELSE f[x]]
Del(f, k) == [x \in (DOMAIN f) \ {k} |-> f[x]]
GetOr(f, k, d) == IF k \in DOMAIN f THEN f[k] ELSE d

SetMin(S) == CHOOSE x \in S : \A y \in S : x <= y

(***************************************************************************)
(* TransactionOrder and its total order.                                   *)
(***************************************************************************)
WordModulus == 1000000

\* u64 subtraction; a negative difference wraps around the word.
SubU64(a, b) == IF a >= b THEN a - b ELSE a - b + WordModulus

for_transaction(item, seq_seq) ==
  [origin |-> item.origin,
   seq_height |-> SubU64(item.tx.seq, seq_seq),
   fee |-> item.tx.fee,
   mem_usage |-> RlpLen(item.tx),
   insertion_id |-> item.insertion_id,
   hash |-> item.tx]

\* An update that leaves the height as it is.
update_height_kept(order, seq, base_seq) == order

update_height(order, seq, base_seq) ==
  [order EXCEPT !.seq_height = SubU64(seq, base_seq)]

change_origin(order, origin) == [order EXCEPT !.origin = origin]

OriginRank(o) == IF o = "Local" THEN 0 ELSE 1

\* Ord for TransactionOrder: Local first, lower height, higher fee, smaller
\* memory, smaller insertion id, hash last.
OrderLess(a, b) ==
  IF a.origin # b.origin THEN OriginRank(a.origin) < OriginRank(b.origin)
  ELSE IF a.seq_height # b.seq_height THEN a.seq_height < b.seq_height
  ELSE IF a.fee # b.fee THEN a.fee > b.fee
  ELSE IF a.mem_usage # b.mem_usage THEN a.mem_usage < b.mem_usage
  ELSE IF a.insertion_id # b.insertion_id THEN a.insertion_id < b.insertion_id
  ELSE HashRank(a.hash) < HashRank(b.hash)

\* The orders of a set in iteration order of the BTreeSet (ascending).
RECURSIVE SortedOrders(_)
SortedOrders(S) ==
  IF S = {} THEN <<>>
  ELSE LET m == CHOOSE x \in S : \A y \in S \ {x} : OrderLess(x, y)
       IN <<m>> \o SortedOrders(S \ {m})

(***************************************************************************)
(* CurrentQueue / FutureQueue: the ordered set and its aggregates.         *)
(***************************************************************************)
QueueNew == [queue |-> {}, count |-> 0, mem_usage |-> 0, fee_counter |-> EmptyMap]

QueueInsert(q, order) ==
  [queue |-> q.queue \cup {order},
   count |-> q.count + 1,
   mem_usage |-> q.mem_usage + order.mem_usage,
   fee_counter |-> Put(q.fee_counter, order.fee, GetOr(q.fee_counter, order.fee, 0) + 1)]

QueueRemove(q, order) ==
  [queue |-> q.queue \ {order},
   count |-> q.count - 1,
   mem_usage |-> q.mem_usage - order.mem_usage,
   fee_counter |->
     IF GetOr(q.fee_counter, order.fee, 0) <= 1
     THEN Del(q.fee_counter, order.fee)
     ELSE Put(q.fee_counter, order.fee, q.fee_counter[order.fee] - 1)]

QueueLen(q) == Cardinality(q.queue)

\* One more than the lowest fee of the histogram; -1 stands for the
\* undefined value of an empty queue.
minimum_fee(q) ==
  IF DOMAIN q.fee_counter = {} THEN -1 ELSE SetMin(DOMAIN q.fee_counter) + 1

(***************************************************************************)
(* Table<Public, u64, TransactionOrderWithTag>.                            *)
(***************************************************************************)
TableHas(t, public, seq) == public \in DOMAIN t /\ seq \in DOMAIN t[public]

\* Table::get, where it returns Some.
TableGet(t, public, seq) == t[public][seq]

TableInsert(t, public, seq, v) ==
  Put(t, public, Put(GetOr(t, public, EmptyMap), seq, v))

TableRemove(t, public, seq) ==
  IF public \in DOMAIN t THEN Put(t, public, Del(t[public], seq)) ELSE t

TableLen(t) ==
  Cardinality({ps \in (DOMAIN t) \X Seqs : ps[2] \in DOMAIN t[ps[1]]})

TableIsEmptyRow(t, public) == public \in DOMAIN t /\ DOMAIN t[public] = {}

(***************************************************************************)
(* The backup store: a batch is a list of puts and deletes, applied in     *)
(* order when the batch is written.                                        *)
(***************************************************************************)
\* The stored value of an item: the list of its encoded fields.
EncodeItem(item) ==
  <<item.tx, item.origin, item.inserted_block_number, item.inserted_timestamp,
    item.insertion_id>>

DecodeItem(bytes) == MemPoolItem(bytes[1], bytes[2], bytes[3], bytes[4], bytes[5])

\* A backup that puts nothing in the batch.
backup_item_dropped(batch, hash, item) == batch

backup_item(batch, hash, item) ==
  Append(batch, [op |-> "put", hash |-> hash, value |-> EncodeItem(item)])

remove_item(batch, hash) == Append(batch, [op |-> "delete", hash |-> hash])

RECURSIVE db_write(_, _)
db_write(store, batch) ==
  IF batch = <<>> THEN store
  ELSE IF Head(batch).op = "put"
  THEN db_write(Put(store, Head(batch).hash, Head(batch).value), Tail(batch))
  ELSE db_write(Del(store, Head(batch).hash), Tail(batch))

\* The items of the store, keyed by hash, as decoded by the backup codec.
recover_to_data(store) == [h \in DOMAIN store |-> DecodeItem(store[h])]

(***************************************************************************)
(* The pool as a record p: the fields of struct MemPool, the batch and     *)
(* the locals of the call in progress, and the panic (if any) that ended   *)
(* it.  Every step leaves a panicked pool as it is.                        *)
(***************************************************************************)
with_limits(limit, memory_limit) ==
  [current |-> QueueNew,
   future |-> QueueNew,
   by_signer_public |-> EmptyMap,
   queue_count_limit |-> limit,
   queue_memory_limit |-> memory_limit,
   by_hash |-> EmptyMap,
   first_seqs |-> EmptyMap,
   next_seqs |-> EmptyMap,
   is_local_account |-> {},
   last_block_number |-> 0,
   last_timestamp |-> 0,
   next_transaction_id |-> 0]

\* The locals of a call: the batch, to_insert, new_local_accounts,
\* insert_results, removed, max_insertion_id, and the orders it evicted.
CallLocals ==
  [batch |-> <<>>, to_insert |-> EmptyMap, new_local_accounts |-> {},
   insert_results |-> <<>>, removed |-> EmptyMap, max_insertion_id |-> 0,
   evicted |-> {}, panic |-> "none"]

Panic(p, why) == IF p.panic = "none" THEN [p EXCEPT !.panic = why] ELSE p

\* Remove an order from the queue named by its tag; the New arm is
\* unreachable!().
RemoveFromQueue(p, order, tag) ==
  IF tag = "Current" THEN [p EXCEPT !.current = QueueRemove(@, order)]
  ELSE IF tag = "Future" THEN [p EXCEPT !.future = QueueRemove(@, order)]
  ELSE Panic(p, "unreachable")

clear_if_empty(p, public) ==
  IF p.panic = "none" /\ TableIsEmptyRow(p.by_signer_public, public)
  THEN [p EXCEPT !.by_signer_public = Del(@, public),
                 !.is_local_account = @ \ {public}]
  ELSE p

(***************************************************************************)
(* enforce_limit                                                           *)
(***************************************************************************)
\* A filter that drops Local orders like any other.
is_dropped_any_origin(order, count, mem_usage, limit, memory_limit) ==
  mem_usage > memory_limit \/ count > limit

\* A filter that lets one order too many stay.
is_dropped_past_limit(order, count, mem_usage, limit, memory_limit) ==
  order.origin # "Local" /\ (mem_usage > memory_limit + 3 \/ count > limit + 1)

\* The filter of get_orders_to_drop at one order, count and mem_usage being
\* the running totals that include it.
is_dropped(order, count, mem_usage, limit, memory_limit) ==
  order.origin # "Local" /\ (mem_usage > memory_limit \/ count > limit)

RECURSIVE get_orders_to_drop_from(_, _, _, _, _)
get_orders_to_drop_from(orders, count, mem_usage, limit, memory_limit) ==
  IF orders = <<>> THEN <<>>
  ELSE (IF is_dropped(Head(orders), count + 1, mem_usage + Head(orders).mem_usage,
                      limit, memory_limit)
        THEN <<Head(orders)>> ELSE <<>>)
       \o get_orders_to_drop_from(Tail(orders), count + 1,
                                  mem_usage + Head(orders).mem_usage, limit, memory_limit)

\* A scan that counts from the lowest priority up.
get_orders_to_drop_from_last(set, limit, memory_limit) ==
  get_orders_to_drop_from([i \in 1..Cardinality(set) |->
                             SortedOrders(set)[Cardinality(set) + 1 - i]],
                          0, 0, limit, memory_limit)

get_orders_to_drop(set, limit, memory_limit) ==
  get_orders_to_drop_from(SortedOrders(set), 0, 0, limit, memory_limit)

\* A choice that looks at the memory limit alone.
to_drop_by_memory_only(q, limit, memory_limit) ==
  IF q.mem_usage > memory_limit
  THEN get_orders_to_drop(q.queue, limit, memory_limit)
  ELSE <<>>

to_drop(q, limit, memory_limit) ==
  IF q.mem_usage > memory_limit \/ q.count > limit
  THEN get_orders_to_drop(q.queue, limit, memory_limit)
  ELSE <<>>

\* An eviction that leaves the evicted item in the backup store.
evict_without_backup(p, order, is_current) ==
  clear_if_empty(
    [p EXCEPT !.by_hash = Del(@, order.hash),
              !.by_signer_public = TableRemove(@, order.hash.signer, order.hash.seq),
              !.evicted = @ \cup {order},
              !.current = IF is_current THEN QueueRemove(@, order) ELSE @,
              !.future = IF is_current THEN @ ELSE QueueRemove(@, order)],
    order.hash.signer)

\* One turn of the eviction loop of enforce_limit.
evict(p, order, is_current) ==
  IF order.hash \notin DOMAIN p.by_hash
     \/ ~TableHas(p.by_signer_public, order.hash.signer, order.hash.seq)
  THEN Panic(p, "expect")
  ELSE clear_if_empty(
         [p EXCEPT !.by_hash = Del(@, order.hash),
                   !.batch = remove_item(@, order.hash),
                   !.by_signer_public = TableRemove(@, order.hash.signer, order.hash.seq),
                   !.evicted = @ \cup {order},
                   !.current = IF is_current THEN QueueRemove(@, order) ELSE @,
                   !.future = IF is_current THEN @ ELSE QueueRemove(@, order)],
         order.hash.signer)

RECURSIVE evict_all(_, _, _)
evict_all(p, orders, is_current) ==
  IF orders = <<>> \/ p.panic # "none" THEN p
  ELSE evict_all(evict(p, Head(orders), is_current), Tail(orders), is_current)

\* The second half of enforce_limit, the orders to drop being chosen.
enforce_drop(p, to_drop_current, to_drop_future) ==
  evict_all(evict_all(p, to_drop_current, TRUE), to_drop_future, FALSE)

enforce_limit(p) ==
  IF p.panic # "none" THEN p
  ELSE enforce_drop(p, to_drop(p.current, p.queue_count_limit, p.queue_memory_limit),
                    to_drop(p.future, p.queue_count_limit, p.queue_memory_limit))

(***************************************************************************)
(* Helpers of add and remove.                                              *)
(***************************************************************************)
\* A boundary that does not scan the row for the first gap.
next_seq_without_scan(p, public, start_seq) == start_seq

RECURSIVE next_seq_from(_, _)
next_seq_from(row, s) == IF s \in DOMAIN row THEN next_seq_from(row, s + 1) ELSE s

next_seq_of_queued(p, public, start_seq) ==
  next_seq_from(p.by_signer_public[public], start_seq)

\* One turn of the loop of move_queue, at seq.
move_one(p, public, seq, to) ==
  IF ~TableHas(p.by_signer_public, public, seq) THEN p
  ELSE IF p.by_signer_public[public][seq].tag = "Current" /\ to = "Future"
  THEN [p EXCEPT !.by_signer_public[public][seq].tag = "Future",
                 !.current = QueueRemove(@, p.by_signer_public[public][seq].order),
                 !.future = QueueInsert(@, p.by_signer_public[public][seq].order)]
  ELSE IF p.by_signer_public[public][seq].tag = "Future" /\ to = "Current"
  THEN [p EXCEPT !.by_signer_public[public][seq].tag = "Current",
                 !.future = QueueRemove(@, p.by_signer_public[public][seq].order),
                 !.current = QueueInsert(@, p.by_signer_public[public][seq].order)]
  ELSE p

RECURSIVE move_queue(_, _, _, _, _)
move_queue(p, public, start_seq, end_seq, to) ==
  IF start_seq < end_seq
  THEN move_queue(move_one(p, public, start_seq, to), public, start_seq + 1, end_seq, to)
  ELSE p

\* A turn that queues the order and leaves its tag as it is.
add_new_order_keeping_tag(p, public, seq, new_next_seq) ==
  IF ~TableHas(p.by_signer_public, public, seq) THEN Panic(p, "expect")
  ELSE IF p.by_signer_public[public][seq].tag # "New" THEN Panic(p, "unreachable")
  ELSE IF seq < new_next_seq
  THEN [p EXCEPT !.current = QueueInsert(@, p.by_signer_public[public][seq].order)]
  ELSE [p EXCEPT !.future = QueueInsert(@, p.by_signer_public[public][seq].order)]

\* One turn of the loop of add_new_orders_to_queue.
add_new_order(p, public, seq, new_next_seq) ==
  IF ~TableHas(p.by_signer_public, public, seq) THEN Panic(p, "expect")
  ELSE IF p.by_signer_public[public][seq].tag # "New" THEN Panic(p, "unreachable")
  ELSE IF seq < new_next_seq
  THEN [p EXCEPT !.by_signer_public[public][seq].tag = "Current",
                 !.current = QueueInsert(@, p.by_signer_public[public][seq].order)]
  ELSE [p EXCEPT !.by_signer_public[public][seq].tag = "Future",
                 !.future = QueueInsert(@, p.by_signer_public[public][seq].order)]

RECURSIVE add_new_orders_to_queue(_, _, _, _)
add_new_orders_to_queue(p, public, seq_list, new_next_seq) ==
  IF seq_list = <<>> \/ p.panic # "none" THEN p
  ELSE add_new_orders_to_queue(add_new_order(p, public, Head(seq_list), new_next_seq),
                               public, Tail(seq_list), new_next_seq)

\* The order update_orders puts back for one it took out.
updated_order(old_order, seq, current_seq, to_local) ==
  IF to_local THEN change_origin(update_height(old_order, seq, current_seq), "Local")
  ELSE update_height(old_order, seq, current_seq)

\* A tail that puts every order back, the stale ones too.
reinsert_order_keeping_stale(p, public, seq, old_order, new_order, current_seq, new_next_seq) ==
  IF p.panic # "none" THEN p
  ELSE IF seq < new_next_seq
  THEN [p EXCEPT !.current = QueueInsert(@, new_order),
                 !.by_signer_public =
                    TableInsert(@, public, seq, [order |-> new_order, tag |-> "Current"])]
  ELSE [p EXCEPT !.future = QueueInsert(@, new_order),
                 !.by_signer_public =
                    TableInsert(@, public, seq, [order |-> new_order, tag |-> "Future"])]

\* The tail of one turn of update_orders: the old order is out of its queue
\* and out of the row.
reinsert_order(p, public, seq, old_order, new_order, current_seq, new_next_seq) ==
  IF p.panic # "none" THEN p
  ELSE IF seq < current_seq
  THEN [p EXCEPT !.by_hash = Del(@, old_order.hash),
                 !.batch = remove_item(@, old_order.hash)]
  ELSE IF seq < new_next_seq
  THEN [p EXCEPT !.current = QueueInsert(@, new_order),
                 !.by_signer_public =
                    TableInsert(@, public, seq, [order |-> new_order, tag |-> "Current"])]
  ELSE [p EXCEPT !.future = QueueInsert(@, new_order),
                 !.by_signer_public =
                    TableInsert(@, public, seq, [order |-> new_order, tag |-> "Future"])]

\* The row entry of (public, seq) is taken out of the table.
drop_row_entry(p, public, seq) ==
  IF p.panic # "none" THEN p
  ELSE [p EXCEPT !.by_signer_public = TableRemove(@, public, seq)]

\* One turn of the loop of update_orders, at seq, owt being the row entry.
update_order(p, public, seq, owt, current_seq, new_next_seq, to_local) ==
  IF owt.tag = "New" THEN p
  ELSE reinsert_order(drop_row_entry(RemoveFromQueue(p, owt.order, owt.tag), public, seq),
                      public, seq, owt.order,
                      updated_order(owt.order, seq, current_seq, to_local),
                      current_seq, new_next_seq)

RECURSIVE update_orders_from(_, _, _, _, _, _)
update_orders_from(p, public, seqs, current_seq, new_next_seq, to_local) ==
  IF seqs = {} \/ p.panic # "none" THEN p
  ELSE update_orders_from(
         update_order(p, public, SetMin(seqs), p.by_signer_public[public][SetMin(seqs)],
                      current_seq, new_next_seq, to_local),
         public, seqs \ {SetMin(seqs)}, current_seq, new_next_seq, to_local)

update_orders(p, public, current_seq, new_next_seq, to_local) ==
  update_orders_from(p, public, DOMAIN p.by_signer_public[public],
                     current_seq, new_next_seq, to_local)

(***************************************************************************)
(* verify_transaction                                                      *)
(***************************************************************************)
effective_minimum_fee(p) ==
  IF QueueLen(p.current) >= p.queue_count_limit THEN minimum_fee(p.current) ELSE 0

\* x >> n on unsigned integers.
RECURSIVE Shr(_, _)
Shr(x, n) == IF n = 0 THEN x ELSE Shr(x \div 2, n - 1)

\* A bump of a quarter of the old fee.
min_required_fee_quarter_bump(old_fee) == old_fee + Shr(old_fee, FeeBumpShift - 1)

\* Line 750, on u64: a sum past the word wraps around it where the build
\* does not check the addition (overflow_checked is the build that does).
min_required_fee(old_fee) == (old_fee + Shr(old_fee, FeeBumpShift)) % WordModulus

\* Checks that hold inputs of every origin to the fee floor.
verify_against_any_origin(p, tx, origin, client_account, full_pools_lowest) ==
  IF tx.fee < full_pools_lowest
  THEN [kind |-> "InsufficientFee", minimal |-> full_pools_lowest, got |-> tx.fee]
  ELSE IF client_account.balance < tx.fee
  THEN [kind |-> "InsufficientBalance", pubkey |-> tx.signer, cost |-> tx.fee,
        balance |-> client_account.balance]
  ELSE IF tx \in DOMAIN p.by_hash
  THEN [kind |-> "TransactionAlreadyImported"]
  ELSE IF tx.seq < client_account.seq
  THEN [kind |-> "Old"]
  ELSE IF /\ origin # "Local"
          /\ TableHas(p.by_signer_public, tx.signer, tx.seq)
          /\ tx.fee < p.by_signer_public[tx.signer][tx.seq].order.fee
                        + Shr(p.by_signer_public[tx.signer][tx.seq].order.fee, FeeBumpShift)
  THEN [kind |-> "TooCheapToReplace"]
  ELSE [kind |-> "Ok"]

\* Checks that look at the seq of the account before its balance.
verify_against_seq_first(p, tx, origin, client_account, full_pools_lowest) ==
  IF origin # "Local" /\ tx.fee < full_pools_lowest
  THEN [kind |-> "InsufficientFee", minimal |-> full_pools_lowest, got |-> tx.fee]
  ELSE IF tx.seq < client_account.seq
  THEN [kind |-> "Old"]
  ELSE IF client_account.balance < tx.fee
  THEN [kind |-> "InsufficientBalance", pubkey |-> tx.signer, cost |-> tx.fee,
        balance |-> client_account.balance]
  ELSE IF tx \in DOMAIN p.by_hash
  THEN [kind |-> "TransactionAlreadyImported"]
  ELSE IF /\ origin # "Local"
          /\ TableHas(p.by_signer_public, tx.signer, tx.seq)
          /\ tx.fee < min_required_fee(p.by_signer_public[tx.signer][tx.seq].order.fee)
  THEN [kind |-> "TooCheapToReplace"]
  ELSE [kind |-> "Ok"]

\* The checks of verify_transaction, full_pools_lowest being the fee floor.
verify_against(p, tx, origin, client_account, full_pools_lowest) ==
  IF origin # "Local" /\ tx.fee < full_pools_lowest
  THEN [kind |-> "InsufficientFee", minimal |-> full_pools_lowest, got |-> tx.fee]
  ELSE IF client_account.balance < tx.fee
  THEN [kind |-> "InsufficientBalance", pubkey |-> tx.signer, cost |-> tx.fee,
        balance |-> client_account.balance]
  ELSE IF tx \in DOMAIN p.by_hash
  THEN [kind |-> "TransactionAlreadyImported"]
  ELSE IF tx.seq < client_account.seq
  THEN [kind |-> "Old"]
  ELSE IF /\ origin # "Local"
          /\ TableHas(p.by_signer_public, tx.signer, tx.seq)
          /\ tx.fee < min_required_fee(p.by_signer_public[tx.signer][tx.seq].order.fee)
  THEN [kind |-> "TooCheapToReplace"]
  ELSE [kind |-> "Ok"]

verify_transaction(p, tx, origin, client_account) ==
  verify_against(p, tx, origin, client_account, effective_minimum_fee(p))

\* verify_transaction reaches line 750 and the sum there does not fit the
\* word: a build with overflow checks panics on the addition.
overflow_checked(p, tx, origin, client_account) ==
  /\ origin # "Local"
  /\ TableHas(p.by_signer_public, tx.signer, tx.seq)
  /\ verify_transaction(p, tx, origin, client_account).kind \in {"Ok", "TooCheapToReplace"}
  /\ p.by_signer_public[tx.signer][tx.seq].order.fee
       + Shr(p.by_signer_public[tx.signer][tx.seq].order.fee, FeeBumpShift) >= WordModulus

(***************************************************************************)
(* add                                                                     *)
(***************************************************************************)
\* The origin an input is admitted with (lines 243-251).
effective_origin(p, input) ==
  IF input.origin = "Local" /\ input.transaction.signer \notin p.is_local_account
  THEN "Local"
  ELSE IF input.origin = "External" /\ input.transaction.signer \in p.is_local_account
  THEN "Local"
  ELSE input.origin

\* The signer of a Local input is marked local (lines 243-246).
mark_local(p, input) ==
  IF input.origin = "Local" /\ input.transaction.signer \notin p.is_local_account
  THEN [p EXCEPT !.is_local_account = @ \cup {input.transaction.signer},
                 !.new_local_accounts = @ \cup {input.transaction.signer}]
  ELSE p

\* An insertion that does not count its id.
insert_item_keeping_id(p, tx, item, order) ==
  IF TableHas(p.by_signer_public, tx.signer, tx.seq)
  THEN RemoveFromQueue(
         [p EXCEPT !.batch = remove_item(backup_item(@, tx, item),
                                         p.by_signer_public[tx.signer][tx.seq].order.hash),
                   !.by_hash = Del(Put(@, tx, item),
                                   p.by_signer_public[tx.signer][tx.seq].order.hash),
                   !.by_signer_public =
                      TableInsert(@, tx.signer, tx.seq, [order |-> order, tag |-> "New"])],
         p.by_signer_public[tx.signer][tx.seq].order,
         p.by_signer_public[tx.signer][tx.seq].tag)
  ELSE [p EXCEPT !.batch = backup_item(@, tx, item),
                 !.by_hash = Put(@, tx, item),
                 !.by_signer_public =
                    TableInsert(@, tx.signer, tx.seq, [order |-> order, tag |-> "New"])]

\* Lines 265-284: the item goes to the batch, to by_hash and to the table;
\* the order it displaces leaves by_hash, the batch and its queue.
insert_item(p, tx, item, order) ==
  IF TableHas(p.by_signer_public, tx.signer, tx.seq)
  THEN RemoveFromQueue(
         [p EXCEPT !.next_transaction_id = @ + 1,
                   !.batch = remove_item(backup_item(@, tx, item),
                                         p.by_signer_public[tx.signer][tx.seq].order.hash),
                   !.by_hash = Del(Put(@, tx, item),
                                   p.by_signer_public[tx.signer][tx.seq].order.hash),
                   !.by_signer_public =
                      TableInsert(@, tx.signer, tx.seq, [order |-> order, tag |-> "New"])],
         p.by_signer_public[tx.signer][tx.seq].order,
         p.by_signer_public[tx.signer][tx.seq].tag)
  ELSE [p EXCEPT !.next_transaction_id = @ + 1,
                 !.batch = backup_item(@, tx, item),
                 !.by_hash = Put(@, tx, item),
                 !.by_signer_public =
                    TableInsert(@, tx.signer, tx.seq, [order |-> order, tag |-> "New"])]

\* Lines 286-287.
note_inserted(p, tx) ==
  IF p.panic # "none" THEN p
  ELSE [p EXCEPT !.to_insert = Put(@, tx.signer, Append(GetOr(@, tx.signer, <<>>), tx.seq)),
                 !.insert_results =
                    Append(@, [ok |-> TRUE, signer_public |-> tx.signer, seq |-> tx.seq])]

\* Lines 254-287, the verdict of verify_transaction being known.
admit(p, tx, verdict, item, client_seq) ==
  IF verdict.kind # "Ok"
  THEN [p EXCEPT !.insert_results = Append(@, [ok |-> FALSE, err |-> verdict])]
  ELSE note_inserted(insert_item(p, tx, item, for_transaction(item, client_seq)), tx)

\* One turn of the loop over the inputs of add.
add_input(p, input, inserted_block_number, inserted_timestamp, fetch_account) ==
  admit(mark_local(p, input), input.transaction,
        verify_transaction(mark_local(p, input), input.transaction,
                           effective_origin(p, input),
                           fetch_account[input.transaction.signer]),
        MemPoolItem(input.transaction, effective_origin(p, input), inserted_block_number,
                    inserted_timestamp, p.next_transaction_id),
        fetch_account[input.transaction.signer].seq)

RECURSIVE add_inputs(_, _, _, _, _)
add_inputs(p, inputs, inserted_block_number, inserted_timestamp, fetch_account) ==
  IF inputs = <<>> \/ p.panic # "none" THEN p
  ELSE add_inputs(add_input(p, Head(inputs), inserted_block_number, inserted_timestamp,
                            fetch_account),
                  Tail(inputs), inserted_block_number, inserted_timestamp, fetch_account)

\* Some input of the batch makes a build with overflow checks panic.
RECURSIVE add_overflows(_, _, _, _, _)
add_overflows(p, inputs, inserted_block_number, inserted_timestamp, fetch_account) ==
  /\ inputs # <<>>
  /\ p.panic = "none"
  /\ \/ overflow_checked(mark_local(p, Head(inputs)), Head(inputs).transaction,
                          effective_origin(p, Head(inputs)),
                          fetch_account[Head(inputs).transaction.signer])
     \/ add_overflows(add_input(p, Head(inputs), inserted_block_number, inserted_timestamp,
                                fetch_account),
                      Tail(inputs), inserted_block_number, inserted_timestamp, fetch_account)

\* A test of monotonicity that leaves the block number and the timestamp out.
must_rebase_from_seqs_alone(p, public, current_seq, block_number, timestamp) ==
  \/ current_seq < GetOr(p.first_seqs, public, 0)
  \/ GetOr(p.next_seqs, public, current_seq) < current_seq

\* The pool has lost monotonicity with respect to a signer (lines 297-300
\* and 519-522).
must_rebase_from_oracle(p, public, current_seq, block_number, timestamp) ==
  \/ current_seq < GetOr(p.first_seqs, public, 0)
  \/ block_number < p.last_block_number
  \/ timestamp < p.last_timestamp
  \/ GetOr(p.next_seqs, public, current_seq) < current_seq

\* target_seq of add (lines 297-305).
target_seq(p, public, current_seq, inserted_block_number, inserted_timestamp) ==
  IF must_rebase_from_oracle(p, public, current_seq, inserted_block_number,
                             inserted_timestamp)
  THEN current_seq
  ELSE GetOr(p.next_seqs, public, current_seq)

\* Lines 310-320 and 532-542: the heights are updated, or the entries
\* between the old and the new boundary change queue.
rebase_or_move(p, public, current_seq, next_seq, new_next_seq, rebase, to_local) ==
  IF rebase
  THEN [update_orders(p, public, current_seq, new_next_seq, to_local)
          EXCEPT !.first_seqs = Put(@, public, current_seq)]
  ELSE IF new_next_seq < next_seq
  THEN move_queue(p, public, new_next_seq, next_seq, "Future")
  ELSE IF new_next_seq > next_seq
  THEN move_queue(p, public, next_seq, new_next_seq, "Current")
  ELSE p

\* A boundary that is dropped whatever it is.
set_next_seq_dropped(p, public, new_next_seq, first_seq) ==
  IF p.panic # "none" THEN p
  ELSE [p EXCEPT !.next_seqs = Del(@, public)]

\* A boundary that is kept in one cell for all the signers of the table.
set_next_seq_shared(p, public, new_next_seq, first_seq) ==
  IF p.panic # "none" THEN p
  ELSE IF new_next_seq <= first_seq
  THEN [p EXCEPT !.next_seqs = EmptyMap]
  ELSE [p EXCEPT !.next_seqs = [S \in DOMAIN p.by_signer_public |-> new_next_seq]]

\* Lines 322-326 and 544-548.
set_next_seq(p, public, new_next_seq, first_seq) ==
  IF p.panic # "none" THEN p
  ELSE IF new_next_seq <= first_seq
  THEN [p EXCEPT !.next_seqs = Del(@, public)]
  ELSE [p EXCEPT !.next_seqs = Put(@, public, new_next_seq)]

\* Lines 328-330.
insert_new_orders(p, public, new_next_seq) ==
  IF public \in DOMAIN p.to_insert
  THEN add_new_orders_to_queue(p, public, p.to_insert[public], new_next_seq)
  ELSE p

\* One turn of the loop over the signers of add, the seqs being computed.
add_signer_at(p, public, current_seq, first_seq, next_seq, new_next_seq, rebase, to_local) ==
  clear_if_empty(
    insert_new_orders(
      set_next_seq(
        rebase_or_move(p, public, current_seq, next_seq, new_next_seq, rebase, to_local),
        public, new_next_seq, IF rebase THEN current_seq ELSE first_seq),
      public, new_next_seq),
    public)

\* One turn of the loop over the signers of add (lines 292-335).
add_signer(p, public, inserted_block_number, inserted_timestamp, fetch_account) ==
  add_signer_at(p, public, fetch_account[public].seq,
                GetOr(p.first_seqs, public, 0),
                GetOr(p.next_seqs, public, fetch_account[public].seq),
                next_seq_of_queued(p, public,
                                   target_seq(p, public, fetch_account[public].seq,
                                              inserted_block_number, inserted_timestamp)),
                fetch_account[public].seq # GetOr(p.first_seqs, public, 0)
                  \/ public \in p.new_local_accounts,
                public \in p.new_local_accounts)

\* The signers of the table, in the order keys() yields them.
RECURSIVE KeysOf(_)
KeysOf(S) ==
  IF S = {} THEN <<>>
  ELSE <<CHOOSE x \in S : \A y \in S : SignerRank(x) <= SignerRank(y)>>
       \o KeysOf(S \ {CHOOSE x \in S : \A y \in S : SignerRank(x) <= SignerRank(y)})

RECURSIVE add_signers(_, _, _, _, _)
add_signers(p, keys, inserted_block_number, inserted_timestamp, fetch_account) ==
  IF keys = <<>> \/ p.panic # "none" THEN p
  ELSE add_signers(add_signer(p, Head(keys), inserted_block_number, inserted_timestamp,
                              fetch_account),
                   Tail(keys), inserted_block_number, inserted_timestamp, fetch_account)

\* Lines 290-335.
reconcile_add(p, inserted_block_number, inserted_timestamp, fetch_account) ==
  add_signers(p, KeysOf(DOMAIN p.by_signer_public), inserted_block_number,
              inserted_timestamp, fetch_account)

RECURSIVE SumOf(_)
SumOf(f) ==
  IF DOMAIN f = {} THEN 0
  ELSE f[CHOOSE x \in DOMAIN f : TRUE] + SumOf(Del(f, CHOOSE x \in DOMAIN f : TRUE))

\* The pool is used at an instant, and the three assert_eq! that end add
\* and remove are made.
assert_synced(p, block_number, timestamp) ==
  IF p.panic # "none" THEN p
  ELSE IF /\ QueueLen(p.current) + QueueLen(p.future) = Cardinality(DOMAIN p.by_hash)
          /\ SumOf(p.current.fee_counter) = QueueLen(p.current)
          /\ TableLen(p.by_signer_public) = Cardinality(DOMAIN p.by_hash)
  THEN [p EXCEPT !.last_block_number = block_number, !.last_timestamp = timestamp]
  ELSE Panic(p, "assert_eq")

\* A result that reports an evicted input as queued.
import_result_ignoring_eviction(p, v) ==
  IF ~v.ok THEN v.err
  ELSE IF TableHas(p.by_signer_public, v.signer_public, v.seq)
  THEN [kind |-> p.by_signer_public[v.signer_public][v.seq].tag]
  ELSE [kind |-> "Future"]

\* The result of one input (lines 348-360).
import_result(p, v) ==
  IF ~v.ok THEN v.err
  ELSE IF TableHas(p.by_signer_public, v.signer_public, v.seq)
  THEN [kind |-> p.by_signer_public[v.signer_public][v.seq].tag]
  ELSE [kind |-> "LimitReached"]

\* A result vector in the reverse of the input order.
import_results_reversed(p) ==
  [i \in 1..Len(p.insert_results) |->
     IF ~p.insert_results[Len(p.insert_results) + 1 - i].ok
     THEN p.insert_results[Len(p.insert_results) + 1 - i].err
     ELSE IF TableHas(p.by_signer_public,
                      p.insert_results[Len(p.insert_results) + 1 - i].signer_public,
                      p.insert_results[Len(p.insert_results) + 1 - i].seq)
     THEN [kind |-> p.by_signer_public
                      [p.insert_results[Len(p.insert_results) + 1 - i].signer_public]
                      [p.insert_results[Len(p.insert_results) + 1 - i].seq].tag]
     ELSE [kind |-> "LimitReached"]]

import_results(p) ==
  [i \in 1..Len(p.insert_results) |-> import_result(p, p.insert_results[i])]

\* The batch is written; the New arm of the result is unreachable!().
check_results(p) ==
  IF p.panic = "none"
     /\ \E i \in 1..Len(p.insert_results) :
          import_result(p, p.insert_results[i]).kind = "New"
  THEN Panic(p, "unreachable_after_write")
  ELSE p

\* add: the pool when the call returns, with its locals; the result vector
\* is import_results of it.
add(p0, inputs, inserted_block_number, inserted_timestamp, fetch_account) ==
  check_results(
    assert_synced(
      enforce_limit(
        reconcile_add(
          add_inputs(p0 @@ CallLocals, inputs, inserted_block_number, inserted_timestamp,
                     fetch_account),
          inserted_block_number, inserted_timestamp, fetch_account)),
      inserted_block_number, inserted_timestamp))

(***************************************************************************)
(* remove and remove_old                                                   *)
(***************************************************************************)
\* Lines 500-508: the lowest removed seq of a signer that is not below the
\* signer's seq is kept.
note_removed(p, signer_public, seq, current_seq) ==
  IF p.panic # "none" THEN p
  ELSE IF current_seq <= seq
          /\ ~(signer_public \in DOMAIN p.removed /\ p.removed[signer_public] <= seq)
  THEN [p EXCEPT !.removed = Put(@, signer_public, seq)]
  ELSE p

\* A removal that leaves the entry in the row of its signer.
forget_item_keeping_row(p, hash, signer_public, seq) ==
  IF p.panic # "none" THEN p
  ELSE [p EXCEPT !.by_hash = Del(@, hash), !.batch = remove_item(@, hash)]

\* Lines 497-499.
forget_item(p, hash, signer_public, seq) ==
  IF p.panic # "none" THEN p
  ELSE [p EXCEPT !.by_hash = Del(@, hash),
                 !.batch = remove_item(@, hash),
                 !.by_signer_public = TableRemove(@, signer_public, seq)]

\* One turn of the loop over the hashes of remove, the item being known.
remove_item_of(p, hash, item, current_seq) ==
  IF ~TableHas(p.by_signer_public, item.tx.signer, item.tx.seq)
  THEN Panic(p, "expect")
  ELSE note_removed(
         forget_item(
           RemoveFromQueue(p, p.by_signer_public[item.tx.signer][item.tx.seq].order,
                           p.by_signer_public[item.tx.signer][item.tx.seq].tag),
           hash, item.tx.signer, item.tx.seq),
         item.tx.signer, item.tx.seq, current_seq)

remove_hash(p, hash, fetch_seq) ==
  IF hash \in DOMAIN p.by_hash
  THEN remove_item_of(p, hash, p.by_hash[hash], fetch_seq[hash.signer])
  ELSE p

RECURSIVE remove_hashes(_, _, _)
remove_hashes(p, transaction_hashes, fetch_seq) ==
  IF transaction_hashes = <<>> \/ p.panic # "none" THEN p
  ELSE remove_hashes(remove_hash(p, Head(transaction_hashes), fetch_seq),
                     Tail(transaction_hashes), fetch_seq)

\* new_next_seq of remove (lines 519-529).
new_next_seq_after_remove(p, public, current_seq, current_block_number, current_timestamp) ==
  IF must_rebase_from_oracle(p, public, current_seq, current_block_number, current_timestamp)
  THEN next_seq_of_queued(p, public, current_seq)
  ELSE IF public \in DOMAIN p.removed
  THEN p.removed[public]
  ELSE next_seq_of_queued(p, public, GetOr(p.next_seqs, public, current_seq))

\* One turn of the loop over the signers of remove, the seqs being computed.
remove_signer_at(p, public, current_seq, first_seq, next_seq, new_next_seq) ==
  clear_if_empty(
    set_next_seq(
      rebase_or_move(p, public, current_seq, next_seq, new_next_seq,
                     current_seq # first_seq, FALSE),
      public, new_next_seq, IF current_seq # first_seq THEN current_seq ELSE first_seq),
    public)

\* One turn of the loop over the signers of remove (lines 514-553).
remove_signer(p, public, fetch_seq, current_block_number, current_timestamp) ==
  remove_signer_at(p, public, fetch_seq[public],
                   GetOr(p.first_seqs, public, 0),
                   GetOr(p.next_seqs, public, fetch_seq[public]),
                   new_next_seq_after_remove(p, public, fetch_seq[public],
                                             current_block_number, current_timestamp))

RECURSIVE remove_signers(_, _, _, _, _)
remove_signers(p, keys, fetch_seq, current_block_number, current_timestamp) ==
  IF keys = <<>> \/ p.panic # "none" THEN p
  ELSE remove_signers(remove_signer(p, Head(keys), fetch_seq, current_block_number,
                                    current_timestamp),
                      Tail(keys), fetch_seq, current_block_number, current_timestamp)

\* Lines 512-553.
reconcile_remove(p, fetch_seq, current_block_number, current_timestamp) ==
  remove_signers(p, KeysOf(DOMAIN p.by_signer_public), fetch_seq, current_block_number,
                 current_timestamp)

\* remove: the pool when the call returns, with its locals.
remove(p0, transaction_hashes, fetch_seq, current_block_number, current_timestamp) ==
  assert_synced(
    reconcile_remove(remove_hashes(p0 @@ CallLocals, transaction_hashes, fetch_seq),
                     fetch_seq, current_block_number, current_timestamp),
    current_block_number, current_timestamp)

saturating_sub(a, b) == IF a >= b THEN a - b ELSE 0

\* The filter of remove_old at one item (lines 383-398).
\* A filter that takes Local items like any other.
is_invalid_any_origin(item, details, time_diff) ==
  \/ time_diff > DEFAULT_POOLING_PERIOD
  \/ time_diff > Shr(DEFAULT_POOLING_PERIOD, 3) /\ Cost(item.tx) > details.balance

\* A filter that takes an entry at the threshold already.
is_invalid_at_threshold(item, details, time_diff) ==
  /\ item.origin # "Local"
  /\ \/ time_diff >= DEFAULT_POOLING_PERIOD
     \/ time_diff >= Shr(DEFAULT_POOLING_PERIOD, 3) /\ Cost(item.tx) > details.balance

is_invalid(item, details, time_diff) ==
  /\ item.origin # "Local"
  /\ \/ time_diff > DEFAULT_POOLING_PERIOD
     \/ time_diff > Shr(DEFAULT_POOLING_PERIOD, 3) /\ Cost(item.tx) > details.balance

\* The hashes remove_old selects (lines 380-399).
invalid_hashes(p, fetch_account, current_block_number) ==
  { hash \in DOMAIN p.by_hash :
      is_invalid(p.by_hash[hash], fetch_account[hash.signer],
                 saturating_sub(current_block_number,
                                p.by_hash[hash].inserted_block_number)) }

\* The hashes of a set, in the byte order of hashes.
RECURSIVE HashList(_)
HashList(S) ==
  IF S = {} THEN <<>>
  ELSE <<CHOOSE x \in S : \A y \in S : HashRank(x) <= HashRank(y)>>
       \o HashList(S \ {CHOOSE x \in S : \A y \in S : HashRank(x) <= HashRank(y)})

\* The seqs of the accounts, as remove_old hands them to remove.
SeqsOf(fetch_account) == [a \in DOMAIN fetch_account |-> fetch_account[a].seq]

remove_old(p0, fetch_account, current_block_number, current_timestamp) ==
  remove(p0, HashList(invalid_hashes(p0, fetch_account, current_block_number)),
         SeqsOf(fetch_account), current_block_number, current_timestamp)

(***************************************************************************)
(* recover_from_db                                                         *)
(***************************************************************************)
\* One turn of the loop over the stored items (lines 416-435).
recover_item(p, hash, item, client_seq) ==
  [p EXCEPT !.max_insertion_id = IF item.insertion_id > @ THEN item.insertion_id ELSE @,
            !.by_hash = Put(@, hash, item),
            !.by_signer_public =
               TableInsert(@, item.tx.signer, item.tx.seq,
                           [order |-> for_transaction(item, client_seq), tag |-> "New"]),
            !.is_local_account = IF item.origin = "Local" THEN @ \cup {item.tx.signer} ELSE @,
            !.to_insert = Put(@, item.tx.signer,
                              Append(GetOr(@, item.tx.signer, <<>>), item.tx.seq))]

RECURSIVE recover_items(_, _, _, _)
recover_items(p, hashes, data, fetch_account) ==
  IF hashes = <<>> THEN p
  ELSE recover_items(recover_item(p, Head(hashes), data[Head(hashes)],
                                  fetch_account[data[Head(hashes)].tx.signer].seq),
                     Tail(hashes), data, fetch_account)

\* One turn of the loop over the signers, next_seq being computed.
recover_signer_at(p, public, current_seq, next_seq) ==
  clear_if_empty(
    add_new_orders_to_queue(
      [p EXCEPT !.first_seqs = Put(@, public, current_seq),
                !.next_seqs = IF next_seq > current_seq THEN Put(@, public, next_seq) ELSE @],
      public, GetOr(p.to_insert, public, <<>>), next_seq),
    public)

\* One turn of the loop over the signers (lines 439-455).
recover_signer(p, public, fetch_account) ==
  recover_signer_at(p, public, fetch_account[public].seq,
                    next_seq_of_queued(p, public, fetch_account[public].seq))

RECURSIVE recover_signers(_, _, _)
recover_signers(p, keys, fetch_account) ==
  IF keys = <<>> \/ p.panic # "none" THEN p
  ELSE recover_signers(recover_signer(p, Head(keys), fetch_account), Tail(keys),
                       fetch_account)

\* Lines 437-460.
recover_queues(p, fetch_account, chain_info) ==
  [recover_signers(p, KeysOf(DOMAIN p.by_signer_public), fetch_account)
     EXCEPT !.last_block_number = chain_info.block,
            !.last_timestamp = chain_info.time,
            !.next_transaction_id = p.max_insertion_id + 1]

\* recover_from_db on the pool p0, store being the backup store.
recover_from_db(p0, store, fetch_account, chain_info) ==
  recover_queues(recover_items(p0 @@ CallLocals, HashList(DOMAIN store),
                               recover_to_data(store), fetch_account),
                 fetch_account, chain_info)

\* remove_all (lines 363-367): both queues are cleared; by_hash, the table,
\* first_seqs, next_seqs and is_local_account are not touched.
remove_all(p) == [p EXCEPT !.current = QueueNew, !.future = QueueNew]

(***************************************************************************)
(* The queries: top_transactions and get_future_pending_transactions.      *)
(***************************************************************************)
\* Range<u64>::contains.
range_contains(range, t) == range.start <= t /\ t < range.end

\* Option<u64> and its maximum, None being below every Some.
None == [kind |-> "None"]

Some(t) == [kind |-> "Some", value |-> t]

max_option(a, b) ==
  IF a = None THEN b
  ELSE IF b = None THEN a
  ELSE IF a.value >= b.value THEN a ELSE b

\* A take_while that stops when the running size ties the limit.
RECURSIVE take_while_at_most(_, _, _, _, _, _)
take_while_at_most(by_hash_of, orders, range, taken, current_size, size_limit) ==
  IF orders = <<>>
  THEN [taken |-> taken, current_size |-> current_size, panic |-> "none"]
  ELSE IF Head(orders).hash \notin DOMAIN by_hash_of
  THEN [taken |-> taken, current_size |-> current_size, panic |-> "expect"]
  ELSE IF ~range_contains(range, by_hash_of[Head(orders).hash].inserted_timestamp)
  THEN take_while_at_most(by_hash_of, Tail(orders), range, taken, current_size, size_limit)
  ELSE IF current_size + RlpLen(by_hash_of[Head(orders).hash].tx) <= size_limit
  THEN take_while_at_most(by_hash_of, Tail(orders), range,
                          Append(taken, by_hash_of[Head(orders).hash]),
                          current_size + RlpLen(by_hash_of[Head(orders).hash].tx),
                          size_limit)
  ELSE [taken |-> taken,
        current_size |-> current_size + RlpLen(by_hash_of[Head(orders).hash].tx),
        panic |-> "none"]

\* The chain map, filter, take_while over the orders of a queue (lines
\* 776-792): the item of each order is looked up, the items outside the
\* range are skipped, and the scan stops at the first item whose size brings
\* current_size to size_limit or above, current_size keeping that size.
RECURSIVE take_while_below(_, _, _, _, _, _)
take_while_below(by_hash_of, orders, range, taken, current_size, size_limit) ==
  IF orders = <<>>
  THEN [taken |-> taken, current_size |-> current_size, panic |-> "none"]
  ELSE IF Head(orders).hash \notin DOMAIN by_hash_of
  THEN [taken |-> taken, current_size |-> current_size, panic |-> "expect"]
  ELSE IF ~range_contains(range, by_hash_of[Head(orders).hash].inserted_timestamp)
  THEN take_while_below(by_hash_of, Tail(orders), range, taken, current_size, size_limit)
  ELSE IF current_size + RlpLen(by_hash_of[Head(orders).hash].tx) < size_limit
  THEN take_while_below(by_hash_of, Tail(orders), range,
                        Append(taken, by_hash_of[Head(orders).hash]),
                        current_size + RlpLen(by_hash_of[Head(orders).hash].tx),
                        size_limit)
  ELSE [taken |-> taken,
        current_size |-> current_size + RlpLen(by_hash_of[Head(orders).hash].tx),
        panic |-> "none"]

\* The greatest inserted_timestamp of a list of items.
RECURSIVE max_timestamp(_)
max_timestamp(items) ==
  IF items = <<>> THEN None
  ELSE max_option(Some(Head(items).inserted_timestamp), max_timestamp(Tail(items)))

\* PendingVerifiedTransactions of the items taken.
pending(scanned) ==
  [transactions |-> [i \in 1..Len(scanned.taken) |-> scanned.taken[i].tx],
   last_timestamp |-> max_timestamp(scanned.taken),
   panic |-> scanned.panic]

top_transactions(p, size_limit, range) ==
  pending(take_while_below(p.by_hash, SortedOrders(p.current.queue), range, <<>>, 0,
                           size_limit))

\* A scan of future that is charged for the items returned only.
future_after_returned(p, scanned, size_limit, range) ==
  take_while_below(p.by_hash, SortedOrders(p.future.queue), range, <<>>,
                   SumOf([i \in 1..Len(scanned.taken) |-> RlpLen(scanned.taken[i].tx)]),
                   size_limit)

\* The scan of future goes on from the current_size the scan of current left
\* (lines 859-873).
future_after(p, scanned, size_limit, range) ==
  take_while_below(p.by_hash, SortedOrders(p.future.queue), range, <<>>,
                   scanned.current_size, size_limit)

\* Lines 874-886.
both_pending(current_part, future_part) ==
  [transactions |-> current_part.transactions \o future_part.transactions,
   last_timestamp |-> max_option(current_part.last_timestamp, future_part.last_timestamp),
   panic |-> IF current_part.panic # "none" THEN current_part.panic ELSE future_part.panic]

future_pending_from(p, scanned, size_limit, range) ==
  both_pending(pending(scanned), pending(future_after(p, scanned, size_limit, range)))

get_future_pending_transactions(p, size_limit, range) ==
  future_pending_from(p,
                      take_while_below(p.by_hash, SortedOrders(p.current.queue), range, <<>>,
                                       0, size_limit),
                      size_limit, range)

(***************************************************************************)
(* The state machine: one pool, its backup store, the account oracle of    *)
(* the client, and the call that returned last.                            *)
(***************************************************************************)
VARIABLES current, future, by_signer_public, queue_count_limit, queue_memory_limit,
          by_hash, first_seqs, next_seqs, is_local_account, last_block_number,
          last_timestamp, next_transaction_id, db, client, call, panic

poolVars == <<current, future, by_signer_public, queue_count_limit, queue_memory_limit,
              by_hash, first_seqs, next_seqs, is_local_account, last_block_number,
              last_timestamp, next_transaction_id>>

vars == <<poolVars, db, client, call, panic>>

\* The fields of the pool, as a record.
Pool ==
  [current |-> current,
   future |-> future,
   by_signer_public |-> by_signer_public,
   queue_count_limit |-> queue_count_limit,
   queue_memory_limit |-> queue_memory_limit,
   by_hash |-> by_hash,
   first_seqs |-> first_seqs,
   next_seqs |-> next_seqs,
   is_local_account |-> is_local_account,
   last_block_number |-> last_block_number,
   last_timestamp |-> last_timestamp,
   next_transaction_id |-> next_transaction_id]

PoolIs(p) ==
  /\ current = p.current
  /\ future = p.future
  /\ by_signer_public = p.by_signer_public
  /\ queue_count_limit = p.queue_count_limit
  /\ queue_memory_limit = p.queue_memory_limit
  /\ by_hash = p.by_hash
  /\ first_seqs = p.first_seqs
  /\ next_seqs = p.next_seqs
  /\ is_local_account = p.is_local_account
  /\ last_block_number = p.last_block_number
  /\ last_timestamp = p.last_timestamp
  /\ next_transaction_id = p.next_transaction_id

PoolBecomes(p) ==
  /\ current' = p.current
  /\ future' = p.future
  /\ by_signer_public' = p.by_signer_public
  /\ queue_count_limit' = p.queue_count_limit
  /\ queue_memory_limit' = p.queue_memory_limit
  /\ by_hash' = p.by_hash
  /\ first_seqs' = p.first_seqs
  /\ next_seqs' = p.next_seqs
  /\ is_local_account' = p.is_local_account
  /\ last_block_number' = p.last_block_number
  /\ last_timestamp' = p.last_timestamp
  /\ next_transaction_id' = p.next_transaction_id

NoCall == [op |-> "none"]

\* The inputs submitted: every transaction as External, the low bids of s1
\* as Local too.
MemPoolInputs ==
  [transaction : Txs, origin : {"External"}]
    \cup [transaction : {tx \in Txs : tx.signer = "s1" /\ tx.fee = 8}, origin : {"Local"}]

Batches == UNION {[1..n -> MemPoolInputs] : n \in 1..MaxBatch}

\* The answers of the account oracle: the account of s1 moves, s2 stays.
AccountsOf(a) ==
  IF a = "s1" THEN [balance : Balances, seq : Seqs]
  ELSE {[balance |-> 1000, seq |-> 0]}

Init ==
  /\ PoolIs(with_limits(CountLimit, MemoryLimit))
  /\ db = EmptyMap
  /\ client = [a \in Signers |-> [balance |-> 1000, seq |-> 0]]
  /\ call = NoCall
  /\ panic = "none"

\* A panic ends the process.
Aborts(p) ==
  /\ panic' = p.panic
  /\ call' = [op |-> "aborted"]
  /\ UNCHANGED <<poolVars, db, client>>

\* A call returns: the pool is as the call left it and its batch is written.
Returns(p, returned) ==
  /\ PoolBecomes(p)
  /\ db' = db_write(db, p.batch)
  /\ call' = returned
  /\ UNCHANGED <<client, panic>>

AddEnds(p, inputs, at) ==
  IF p.panic # "none" THEN Aborts(p)
  ELSE Returns(p, [op |-> "add", inputs |-> inputs, at |-> at,
                   last |-> [block |-> last_block_number, time |-> last_timestamp],
                   results |-> import_results(p),
                   accepted |-> [i \in 1..Len(inputs) |-> p.insert_results[i].ok],
                   evicted |-> p.evicted])

Add(inputs, at) ==
  /\ panic = "none"
  /\ call = NoCall
  /\ AddEnds(add(Pool, inputs, at.block, at.time, client), inputs, at)

RemoveEnds(p, op, hashes, at) ==
  IF p.panic # "none" THEN Aborts(p)
  ELSE Returns(p, [op |-> op, hashes |-> hashes, at |-> at])

Remove(hashes, at) ==
  /\ panic = "none"
  /\ call = NoCall
  /\ RemoveEnds(remove(Pool, HashList(hashes), SeqsOf(client), at.block, at.time),
                "remove", hashes, at)

RemoveOld(at) ==
  /\ panic = "none"
  /\ call = NoCall
  /\ by_hash # EmptyMap
  /\ RemoveEnds(remove_old(Pool, client, at.block, at.time), "remove_old",
                invalid_hashes(Pool, client, at.block), at)

\* The caller has the result of the last call.
Return ==
  /\ panic = "none"
  /\ call # NoCall
  /\ call' = NoCall
  /\ UNCHANGED <<poolVars, db, client, panic>>

\* The chain moves on (or is reorganised): the oracle answers differently.
SetAccount(a, details) ==
  /\ panic = "none"
  /\ call = NoCall
  /\ client[a] # details
  /\ client' = [client EXCEPT ![a] = details]
  /\ UNCHANGED <<poolVars, db, call, panic>>

Next ==
  \/ \E inputs \in Batches : \E at \in Instants :
       next_transaction_id + Len(inputs) <= MaxId /\ Add(inputs, at)
  \/ \E hashes \in SUBSET (DOMAIN by_hash) : \E at \in Instants : Remove(hashes, at)
  \/ \E at \in Instants : RemoveOld(at)
  \/ Return
  \/ \E a \in Signers : \E details \in AccountsOf(a) : SetAccount(a, details)

Spec == Init /\ [][Next]_vars

(***************************************************************************)
(* One signer and the limits of test::db_backup_and_recover, under which   *)
(* nothing is evicted.  The account of s1 is fixed when the pool is made.  *)
(***************************************************************************)
InputsOf(a) == {input \in MemPoolInputs : input.transaction.signer = a}

BatchesOf(a) == UNION {[1..n -> InputsOf(a)] : n \in 1..MaxBatch}

InitOne(accounts) ==
  /\ PoolIs(with_limits(TestLimit, WordModulus - 1))
  /\ db = EmptyMap
  /\ client \in {[a \in Signers |-> IF a = "s1" THEN details
                                    ELSE [balance |-> 1000, seq |-> 0]] :
                   details \in accounts}
  /\ call = NoCall
  /\ panic = "none"

\* Calls of add and remove at any instant; the account of s1 stays at seq 0.
InitGap == InitOne({[balance |-> 1000, seq |-> 0]})

NextGap ==
  \/ \E inputs \in BatchesOf("s1") : \E at \in Instants :
       next_transaction_id + Len(inputs) <= MaxIdOne /\ Add(inputs, at)
  \/ \E hashes \in SUBSET (DOMAIN by_hash) : \E at \in Instants : Remove(hashes, at)
  \/ Return

SpecGap == InitGap /\ [][NextGap]_vars

\* Calls of add alone, the block number and the timestamp never decreasing.
InitCalm == InitOne(AccountsOf("s1"))

NextCalm ==
  \/ \E inputs \in BatchesOf("s1") : \E at \in Instants :
       /\ next_transaction_id + Len(inputs) <= MaxIdOne
       /\ at.block >= last_block_number
       /\ at.time >= last_timestamp
       /\ Add(inputs, at)
  \/ Return

SpecCalm == InitCalm /\ [][NextCalm]_vars

(***************************************************************************)
(* Bids: transactions of s1 at seqs 0 and 1 that differ in fee and in the  *)
(* quantity they transfer, submitted one at a time, so that a slot sees    *)
(* different transactions of the same fee.                                 *)
(***************************************************************************)
BidInputs ==
  [transaction : {tx \in AllTxs : tx.signer = "s1" /\ tx.seq <= 1}, origin : {"External"}]
    \cup [transaction : {tx \in AllTxs : tx.signer = "s1" /\ tx.seq = 0 /\ tx.fee = 8},
          origin : {"Local"}]

NextBid ==
  \/ \E input \in BidInputs : \E at \in Instants :
       next_transaction_id + 1 <= MaxIdOne /\ Add(<<input>>, at)
  \/ Return

SpecBid == InitGap /\ [][NextBid]_vars

(***************************************************************************)
(* Fees at the top of the word: s1, whose balance is the largest a word    *)
(* holds, bids 8, an eighth of the word and the largest fee a word holds,  *)
(* under a build that checks its additions or one that does not.           *)
(***************************************************************************)
InputsWide ==
  [transaction : [signer : {"s1"}, seq : {0, 1},
                  fee : {8, WordModulus \div 8, WordModulus - 1}, quantity : {0}],
   origin : {"External"}]

\* add, under a build that checks its additions for overflow or not.
AddBuilt(inputs, at, checks) ==
  IF checks /\ add_overflows(Pool @@ CallLocals, inputs, at.block, at.time, client)
  THEN /\ panic = "none"
       /\ call = NoCall
       /\ Aborts([panic |-> "overflow"])
  ELSE Add(inputs, at)

NextWide ==
  \/ \E inputs \in UNION {[1..n -> InputsWide] : n \in 1..MaxBatch} :
       \E at \in Instants : \E checks \in BOOLEAN :
         next_transaction_id + Len(inputs) <= MaxIdOne /\ AddBuilt(inputs, at, checks)
  \/ \E hashes \in SUBSET (DOMAIN by_hash) : \E at \in Instants : Remove(hashes, at)
  \/ Return

SpecWide == InitOne({[balance |-> WordModulus - 1, seq |-> 0]}) /\ [][NextWide]_vars

(***************************************************************************)
(* Residency: transactions of s1 admitted one at a time and remove_old     *)
(* called at the blocks around its two thresholds, while the balance and   *)
(* the seq of the account of s1 change.                                    *)
(***************************************************************************)
InstantsOld ==
  { [block |-> b, time |-> 0] :
      b \in {0, DEFAULT_POOLING_PERIOD \div 8, (DEFAULT_POOLING_PERIOD \div 8) + 1,
             DEFAULT_POOLING_PERIOD, DEFAULT_POOLING_PERIOD + 1} }

\* Transactions of fee 8 that cost 8 or 9, External, and one of them Local.
InputsOld ==
  [transaction : {tx \in AllTxs : tx.signer = "s1" /\ tx.seq <= 1 /\ tx.fee = 8},
   origin : {"External"}]
    \cup [transaction : {tx \in AllTxs : tx.signer = "s1" /\ tx.seq = 0 /\ tx.fee = 8
                                        /\ tx.quantity = 0},
          origin : {"Local"}]

\* The account of s1 holds nothing, the fee, or plenty, at seq 0 or 1.
AccountsOld == [balance : Balances \cup {8}, seq : {0, 1}]

NextOld ==
  \/ \E input \in InputsOld : \E at \in InstantsOld :
       next_transaction_id + 1 <= MaxId /\ Add(<<input>>, at)
  \/ \E at \in InstantsOld : RemoveOld(at)
  \/ Return
  \/ \E details \in AccountsOld : SetAccount("s1", details)

SpecOld == InitGap /\ [][NextOld]_vars

(***************************************************************************)
(* A full pool of locals: the count limit is the number of signers that    *)
(* submit Local transactions, and s4 and s1 submit External ones.          *)
(***************************************************************************)
LocalSigners == {"s1", "s2", "s3"}

InputsFull ==
  [transaction : {tx \in AllTxs : tx.signer \in LocalSigners /\ tx.seq = 0
                                  /\ tx.fee >= 8 /\ tx.quantity = 0},
   origin : {"Local"}]
    \cup [transaction : {tx \in AllTxs : tx.signer = "s4" /\ tx.seq <= 1 /\ tx.quantity = 0},
          origin : {"External"}]
    \cup [transaction : {tx \in AllTxs : tx.signer = "s1" /\ tx.seq = 1 /\ tx.fee = 8
                                        /\ tx.quantity = 0},
          origin : {"External"}]

InitFull ==
  /\ PoolIs(with_limits(Cardinality(LocalSigners), WordModulus - 1))
  /\ db = EmptyMap
  /\ client = [a \in Signers |-> [balance |-> 1000, seq |-> 0]]
  /\ call = NoCall
  /\ panic = "none"

NextFull ==
  \/ \E input \in InputsFull :
       /\ next_transaction_id + 1 <= Cardinality(LocalSigners) + 2
       /\ Add(<<input>>, [block |-> 0, time |-> 0])
  \/ Return

SpecFull == InitFull /\ [][NextFull]_vars

\* A pool whose count limit is 0, which with_limits and set_limit accept.
InitZero ==
  /\ PoolIs(with_limits(0, WordModulus - 1))
  /\ db = EmptyMap
  /\ client = [a \in Signers |-> [balance |-> 1000, seq |-> 0]]
  /\ call = NoCall
  /\ panic = "none"

SpecZero == InitZero /\ [][NextFull]_vars

(***************************************************************************)
(* Going back: calls of add and remove for s1 at instants in any order,    *)
(* while the seq of the account of s1 changes; nothing is evicted.         *)
(***************************************************************************)
NextBack ==
  \/ NextGap
  \/ \E seq \in Seqs : SetAccount("s1", [balance |-> 1000, seq |-> seq])

SpecBack == InitGap /\ [][NextBack]_vars

(***************************************************************************)
(* Queries: transactions of s1 and s2 of two sizes, admitted in batches at *)
(* two timestamps, and the two queries asked of the pool.                  *)
(***************************************************************************)
\* A query returns: the pool is as it was.
QueryEnds(op, size_limit, range, result) ==
  /\ panic' = result.panic
  /\ call' = IF result.panic # "none" THEN [op |-> "aborted"]
             ELSE [op |-> op, size_limit |-> size_limit, range |-> range,
                   result |-> [transactions |-> result.transactions,
                               last_timestamp |-> result.last_timestamp]]
  /\ UNCHANGED <<poolVars, db, client>>

TopTransactions(size_limit, range) ==
  /\ panic = "none"
  /\ call = NoCall
  /\ QueryEnds("top_transactions", size_limit, range,
               top_transactions(Pool, size_limit, range))

GetFuturePendingTransactions(size_limit, range) ==
  /\ panic = "none"
  /\ call = NoCall
  /\ QueryEnds("get_future_pending_transactions", size_limit, range,
               get_future_pending_transactions(Pool, size_limit, range))

\* s1 bids 8 at seqs 0 to 2 and, in a longer encoding, 200 at seq 0; s2 bids
\* 9 at seq 0; s1 submits its seq 1 as Local too.
InputsQuery ==
  [transaction : {tx \in AllTxs : /\ tx.quantity = 0
                                  /\ \/ tx.signer = "s1" /\ tx.fee = 8
                                     \/ tx.signer = "s2" /\ tx.seq = 0 /\ tx.fee = 9},
   origin : {"External"}]
    \cup {[transaction |-> [signer |-> "s1", seq |-> 0, fee |-> 200, quantity |-> 0],
           origin |-> "External"],
          [transaction |-> [signer |-> "s1", seq |-> 1, fee |-> 8, quantity |-> 0],
           origin |-> "Local"]}

\* The size limits asked: the sums of the sizes 3 and 4 and their neighbours.
SizeLimits == {0, 3, 4, 7, 10, 11}

\* The ranges of timestamps asked: both timestamps, the first, the second.
Ranges == {[start |-> 0, end |-> 2], [start |-> 0, end |-> 1], [start |-> 1, end |-> 2]}

NextQuery ==
  \/ \E inputs \in UNION {[1..n -> InputsQuery] : n \in 1..MaxBatch} : \E at \in Instants :
       next_transaction_id + Len(inputs) <= MaxIdOne /\ Add(inputs, at)
  \/ \E size_limit \in SizeLimits : \E range \in Ranges :
       TopTransactions(size_limit, range)
  \/ \E size_limit \in SizeLimits : \E range \in Ranges :
       GetFuturePendingTransactions(size_limit, range)
  \/ Return

SpecQuery == InitGap /\ [][NextQuery]_vars

(***************************************************************************)
(* Clearing: adds of s1 at instants that never go back, and remove_all.    *)
(* Once the queues were cleared under the entries of by_hash, the only add *)
(* made is the one that submits stored inputs again.                       *)
(***************************************************************************)
RemoveAll ==
  /\ panic = "none"
  /\ call = NoCall
  /\ PoolBecomes(remove_all(Pool))
  /\ call' = [op |-> "remove_all"]
  /\ UNCHANGED <<db, client, panic>>

NextClear ==
  \/ \E inputs \in BatchesOf("s1") : \E at \in Instants :
       /\ next_transaction_id + Len(inputs) <= MaxIdOne
       /\ at.block >= last_block_number
       /\ at.time >= last_timestamp
       /\ QueueLen(current) + QueueLen(future) # Cardinality(DOMAIN by_hash)
            => \A i \in 1..Len(inputs) :
                 /\ inputs[i].transaction \in DOMAIN by_hash
                 /\ inputs[i].origin = by_hash[inputs[i].transaction].origin
       /\ Add(inputs, at)
  \/ RemoveAll
  \/ Return

SpecClear == InitGap /\ [][NextClear]_vars

(***************************************************************************)
(* Properties.                                                             *)
(***************************************************************************)
\* A call of the pool has just returned: the oracle is the one it consulted.
Called == call.op \in {"add", "remove", "remove_old"}

RowSeqs(S) == IF S \in DOMAIN by_signer_public THEN DOMAIN by_signer_public[S] ELSE {}

TagOf(S, q) == by_signer_public[S][q].tag

OrderOf(S, q) == by_signer_public[S][q].order

\* The entries of the table, as (signer, seq) pairs.
Entries == {e \in Signers \X Seqs : e[2] \in RowSeqs(e[1])}

\* C1: after every add, remove and remove_old the four indexes agree: each
\* by_hash entry has its SignerIndex entry at its own (signer, seq), whose
\* order is in exactly the queue its tag names; current and future are
\* disjoint; |current| + |future| = |by_hash| = |SignerIndex|; the fee
\* histogram of current sums to |current|; the assert_eq! never fail.
C1_IndexesAgree ==
  /\ panic # "assert_eq"
  /\ \A h \in DOMAIN by_hash :
       /\ by_hash[h].tx = h
       /\ h.seq \in RowSeqs(h.signer)
       /\ OrderOf(h.signer, h.seq).hash = h
  /\ \A e \in Entries :
       /\ OrderOf(e[1], e[2]).hash \in DOMAIN by_hash
       /\ OrderOf(e[1], e[2]).hash.signer = e[1]
       /\ OrderOf(e[1], e[2]).hash.seq = e[2]
       /\ TagOf(e[1], e[2]) \in {"Current", "Future"}
       /\ (TagOf(e[1], e[2]) = "Current") = (OrderOf(e[1], e[2]) \in current.queue)
       /\ (TagOf(e[1], e[2]) = "Future") = (OrderOf(e[1], e[2]) \in future.queue)
  /\ current.queue \cap future.queue = {}
  /\ QueueLen(current) + QueueLen(future) = Cardinality(DOMAIN by_hash)
  /\ TableLen(by_signer_public) = Cardinality(DOMAIN by_hash)
  /\ Cardinality(Entries) = Cardinality(DOMAIN by_hash)
  /\ SumOf(current.fee_counter) = QueueLen(current)
  /\ current.count = QueueLen(current)
  /\ future.count = QueueLen(future)

\* A remove has taken an entry out and left another in a queue.
C1_Witness ==
  /\ call.op = "remove"
  /\ call.hashes # {}
  /\ QueueLen(current) + QueueLen(future) >= 1

\* C2: after every add, remove and remove_old the Current entries of a
\* signer are a contiguous run of seqs that starts at first_seq: if (S, q) is
\* Current, every seq of [first_seq[S], q] is in the row of S and Current.
C2_CurrentIsContiguous ==
  Called =>
    \A e \in Entries :
      TagOf(e[1], e[2]) = "Current" =>
        \A r \in GetOr(first_seqs, e[1], 0)..e[2] :
          r \in RowSeqs(e[1]) /\ TagOf(e[1], r) = "Current"

\* The seqs of S that a remove of hashes takes out of the row of S.
RemovedSeqs(S, hashes) == {q \in RowSeqs(S) : OrderOf(S, q).hash \in hashes}

\* C3: gap demotion.  When remove deletes Current entries of S and the
\* account seq of S is unchanged, every remaining entry of S below the lowest
\* removed seq is Current and every remaining entry above it is Future.
C3_GapDemotion ==
  [][(call.op = "none" /\ call'.op = "remove") =>
       \A S \in Signers :
         ( /\ \E q \in RemovedSeqs(S, call'.hashes) : TagOf(S, q) = "Current"
           /\ client[S].seq = GetOr(first_seqs, S, 0)
           /\ S \in DOMAIN by_signer_public' )
         => \A q \in DOMAIN by_signer_public'[S] :
              by_signer_public'[S][q].tag =
                IF q < SetMin(RemovedSeqs(S, call'.hashes)) THEN "Current" ELSE "Future"
    ]_vars

\* The maximal unbroken run of stored seqs of S that starts at seq c.
ReadyRun(S, c) == {q \in RowSeqs(S) : q >= c /\ \A r \in c..q : r \in RowSeqs(S)}

\* The stored seqs of s1 are classified by the run that starts at the
\* account seq.
ClassifiedByRun ==
  \A q \in RowSeqs("s1") :
    TagOf("s1", q) = IF q \in ReadyRun("s1", client["s1"].seq) THEN "Current" ELSE "Future"

\* C4 as stated: for one signer with a fixed account seq c, after add calls
\* at non-decreasing instants with no removal or eviction, every input with
\* seq < c is rejected with Old, and exactly the stored seqs of the unbroken
\* run c, c+1, ... are Current, the others Future.
C4_OldAndRun ==
  /\ ClassifiedByRun
  /\ call.op = "add" =>
       \A i \in 1..Len(call.inputs) :
         call.inputs[i].transaction.seq < client["s1"].seq
           => call.results[i] = [kind |-> "Old"]

\* C4, amended: an input with seq < c is rejected, with Old unless the
\* balance of the account is below its fee (then with InsufficientBalance);
\* the stored seqs are classified as stated.
C4_RejectedAndRun ==
  /\ ClassifiedByRun
  /\ call.op = "add" =>
       \A i \in 1..Len(call.inputs) :
         call.inputs[i].transaction.seq < client["s1"].seq
           => /\ ~call.accepted[i]
              /\ call.results[i].kind =
                   IF client["s1"].balance < call.inputs[i].transaction.fee
                   THEN "InsufficientBalance" ELSE "Old"

\* Seqs arrived out of order and an input below the account seq was
\* rejected: the account is at seq 1, seq 2 arrived before seq 1, both are
\* Current, and the last call rejected seq 0.
C4_Witness ==
  /\ call.op = "add"
  /\ client["s1"].seq = 1
  /\ RowSeqs("s1") = {1, 2}
  /\ OrderOf("s1", 2).insertion_id < OrderOf("s1", 1).insertion_id
  /\ TagOf("s1", 2) = "Current"
  /\ \E i \in 1..Len(call.inputs) :
       call.inputs[i].transaction.seq = 0 /\ call.results[i].kind = "Old"

\* The pool as input i of the call that returns finds it.
PoolBefore(i) ==
  add_inputs(Pool @@ CallLocals, SubSeq(call'.inputs, 1, i - 1), call'.at.block,
             call'.at.time, client)

\* The verdict of verify_transaction on input i of the call that returns.
VerdictOf(i) ==
  verify_transaction(mark_local(PoolBefore(i), call'.inputs[i]),
                     call'.inputs[i].transaction,
                     effective_origin(PoolBefore(i), call'.inputs[i]),
                     client[call'.inputs[i].transaction.signer])

\* The result input i is due: its verification error, or the queue that
\* holds its entry when the call returns, or LimitReached.
ResultDue(i) ==
  IF VerdictOf(i).kind # "Ok" THEN VerdictOf(i)
  ELSE IF \E o \in current'.queue : o.hash = call'.inputs[i].transaction
  THEN [kind |-> "Current"]
  ELSE IF \E o \in future'.queue : o.hash = call'.inputs[i].transaction
  THEN [kind |-> "Future"]
  ELSE [kind |-> "LimitReached"]

\* C5: add returns one result per input, in input order: the verification
\* error of input i, else Current or Future by the queue that holds its entry
\* when add returns, else LimitReached.
C5_OneResultPerInput ==
  [][(call.op = "none" /\ call'.op = "add") =>
       /\ Len(call'.results) = Len(call'.inputs)
       /\ \A i \in 1..Len(call'.inputs) : call'.results[i] = ResultDue(i)
    ]_vars

\* A batch of two returned an error first and a queue second.
C5_Witness ==
  /\ call.op = "add"
  /\ Len(call.inputs) = 2
  /\ ~call.accepted[1]
  /\ call.results[2].kind \in {"Current", "Future"}

\* C6: an input gets LimitReached iff it passed verification and its own
\* entry was evicted by enforce_limit in that call; an input reported Current
\* or Future is in by_hash when add returns.
C6_LimitReachedIffEvicted ==
  call.op = "add" =>
    \A i \in 1..Len(call.inputs) :
      /\ (call.results[i].kind = "LimitReached")
           = (call.accepted[i]
              /\ \E o \in call.evicted : o.hash = call.inputs[i].transaction)
      /\ call.results[i].kind \in {"Current", "Future"}
           => call.inputs[i].transaction \in DOMAIN by_hash

\* One input of a batch was evicted in the call that admitted it, the other
\* stayed.
C6_Witness ==
  /\ call.op = "add"
  /\ Len(call.inputs) = 2
  /\ \E i, j \in 1..2 :
       call.results[i].kind = "LimitReached" /\ call.results[j].kind = "Current"

\* C7: after every add, remove and remove_old the backup store holds exactly
\* the entries of by_hash.
C7_StoreMirrorsByHash == DOMAIN db = DOMAIN by_hash

\* An add inserted and evicted an entry in one call, with the store not
\* empty.
C7_Witness ==
  /\ call.op = "add"
  /\ \E i \in 1..Len(call.inputs) : call.results[i].kind = "LimitReached"
  /\ DOMAIN db # {}

\* The pool a fresh pool of the same limits recovers from the store, with
\* the oracle as it is.
Recovered ==
  recover_from_db(with_limits(queue_count_limit, queue_memory_limit), db, client,
                  [block |-> last_block_number, time |-> last_timestamp])

\* C8: recovery idempotence.  The recovered pool equals the pool on by_hash,
\* SignerIndex, is_local_account, first_seqs, next_seqs, next_transaction_id,
\* current and future.
C8_RecoveryIdempotent ==
  Called =>
    /\ Recovered.by_hash = by_hash
    /\ Recovered.by_signer_public = by_signer_public
    /\ Recovered.is_local_account = is_local_account
    /\ Recovered.first_seqs = first_seqs
    /\ Recovered.next_seqs = next_seqs
    /\ Recovered.next_transaction_id = next_transaction_id
    /\ Recovered.current = current
    /\ Recovered.future = future

\* The keys of the orders of a queue: origin flag, height, fee (and the
\* transaction they order).
OrderKeys(q) ==
  {[hash |-> o.hash, origin |-> o.origin, seq_height |-> o.seq_height, fee |-> o.fee] :
     o \in q.queue}

\* C9: recovery preserves classification.  With the oracle unchanged the
\* recovered pool has the same entries, each Current in one iff Current in
\* the other, and the order keys of its current and future equal the pool's.
C9_RecoveryKeepsClasses ==
  Called =>
    /\ DOMAIN Recovered.by_signer_public = DOMAIN by_signer_public
    /\ \A S \in DOMAIN by_signer_public :
         /\ DOMAIN Recovered.by_signer_public[S] = RowSeqs(S)
         /\ \A q \in RowSeqs(S) : Recovered.by_signer_public[S][q].tag = TagOf(S, q)
    /\ OrderKeys(Recovered.current) = OrderKeys(current)
    /\ OrderKeys(Recovered.future) = OrderKeys(future)

\* C10: enforce_limit never evicts an order of origin Local, and a Local
\* input admitted by add is in the pool when add returns.
C10_LocalNeverEvicted ==
  call.op = "add" =>
    /\ \A o \in call.evicted : o.origin # "Local"
    /\ \A i \in 1..Len(call.inputs) :
         (call.inputs[i].origin = "Local" /\ call.accepted[i])
           => call.inputs[i].transaction \in DOMAIN by_hash

\* An add evicted an order while a Local input it admitted stayed.
C10_Witness ==
  /\ call.op = "add"
  /\ call.evicted # {}
  /\ \E i \in 1..Len(call.inputs) : call.inputs[i].origin = "Local" /\ call.accepted[i]

\* The orders of a queue that are not of origin Local.
NonLocal(q) == {o \in q.queue : o.origin # "Local"}

\* The memory the orders of a queue use.
MemoryOf(q) == SumOf([o \in q.queue |-> o.mem_usage])

\* C11: after every add, a queue (current, future) that holds an entry of
\* origin other than Local holds at most queue_count_limit entries and uses
\* at most queue_memory_limit of memory.
C11_NonLocalWithinLimits ==
  call.op = "add" =>
    /\ NonLocal(current) # {}
         => /\ QueueLen(current) <= queue_count_limit
            /\ current.count <= queue_count_limit
            /\ MemoryOf(current) <= queue_memory_limit
            /\ current.mem_usage <= queue_memory_limit
    /\ NonLocal(future) # {}
         => /\ QueueLen(future) <= queue_count_limit
            /\ future.count <= queue_count_limit
            /\ MemoryOf(future) <= queue_memory_limit
            /\ future.mem_usage <= queue_memory_limit

\* An add evicted an order and left an order of origin External in the
\* queue that was over its limit.
C11_Witness ==
  /\ call.op = "add"
  /\ \E o \in call.evicted : o.origin = "External"
  /\ NonLocal(current) # {}
  /\ QueueLen(current) = queue_count_limit

\* The fee floor input i of the call that returns meets: with current full,
\* one more than the smallest fee of an order of current, else 0.
FloorBefore(i) ==
  IF Cardinality(PoolBefore(i).current.queue) >= queue_count_limit
  THEN 1 + SetMin({o.fee : o \in PoolBefore(i).current.queue})
  ELSE 0

\* Input i of the call that returns is admitted as Local: it is submitted as
\* Local, or its signer is a local account already.
LocalBefore(i) ==
  \/ call'.inputs[i].origin = "Local"
  \/ call'.inputs[i].transaction.signer \in PoolBefore(i).is_local_account

\* C12: the fee floor.  With |current| >= queue_count_limit the floor is one
\* more than the smallest fee in current, and an input that is not admitted
\* as Local with a fee below the floor is rejected with
\* InsufficientFee {minimal: floor, got: fee}; with |current| below the limit
\* the floor is 0; an input admitted as Local is never rejected with
\* InsufficientFee.
C12_FeeFloor ==
  [][(call.op = "none" /\ call'.op = "add") =>
       \A i \in 1..Len(call'.inputs) :
         /\ effective_minimum_fee(PoolBefore(i)) = FloorBefore(i)
         /\ LocalBefore(i) => call'.results[i].kind # "InsufficientFee"
         /\ (call'.results[i].kind = "InsufficientFee")
              = (~LocalBefore(i) /\ call'.inputs[i].transaction.fee < FloorBefore(i))
         /\ call'.results[i].kind = "InsufficientFee"
              => call'.results[i] = [kind |-> "InsufficientFee",
                                     minimal |-> FloorBefore(i),
                                     got |-> call'.inputs[i].transaction.fee]
    ]_vars

\* An External input bid the smallest fee of a full current and was
\* rejected with the floor, one more than its bid.
C12_Witness ==
  /\ call.op = "add"
  /\ QueueLen(current) >= queue_count_limit
  /\ \E i \in 1..Len(call.inputs) :
       /\ call.inputs[i].origin = "External"
       /\ call.inputs[i].transaction.signer \notin is_local_account
       /\ call.results[i] = [kind |-> "InsufficientFee",
                             minimal |-> call.inputs[i].transaction.fee + 1,
                             got |-> call.inputs[i].transaction.fee]
       /\ \E o \in current.queue : o.fee = call.inputs[i].transaction.fee

\* The transaction of input i of the call that returns.
TxOf(i) == call'.inputs[i].transaction

\* Input i finds its (signer, seq) slot occupied by another transaction.
Occupied(i) ==
  /\ TableHas(PoolBefore(i).by_signer_public, TxOf(i).signer, TxOf(i).seq)
  /\ PoolBefore(i).by_signer_public[TxOf(i).signer][TxOf(i).seq].order.hash # TxOf(i)

\* The order input i finds at its slot.
OldOrder(i) == PoolBefore(i).by_signer_public[TxOf(i).signer][TxOf(i).seq].order

\* The fee a replacement of an order of fee f is held to.
BumpOf(f) == f + (f \div (2 ^ FeeBumpShift))

\* Input i left the pool as it found it.
Untouched(i) ==
  /\ PoolBefore(i + 1).by_hash = PoolBefore(i).by_hash
  /\ PoolBefore(i + 1).by_signer_public = PoolBefore(i).by_signer_public
  /\ PoolBefore(i + 1).current = PoolBefore(i).current
  /\ PoolBefore(i + 1).future = PoolBefore(i).future
  /\ PoolBefore(i + 1).batch = PoolBefore(i).batch

\* Input i was accepted and the order it found at its slot is gone from
\* by_hash, the table, the queues and the backup store: the slot holds the
\* entry of input i, or nothing if enforce_limit evicted it in this call.
Replaced(i) ==
  /\ call'.accepted[i]
  /\ OldOrder(i).hash \notin DOMAIN by_hash'
  /\ OldOrder(i).hash \notin DOMAIN db'
  /\ \A o \in current'.queue \cup future'.queue : o.hash # OldOrder(i).hash
  /\ TableHas(by_signer_public', TxOf(i).signer, TxOf(i).seq)
       => by_signer_public'[TxOf(i).signer][TxOf(i).seq].order.hash = TxOf(i)
  /\ IF call'.results[i].kind = "LimitReached"
     THEN TxOf(i) \notin DOMAIN by_hash'
     ELSE /\ call'.results[i].kind \in {"Current", "Future"}
          /\ TxOf(i) \in DOMAIN by_hash'
          /\ TxOf(i) \in DOMAIN db'
          /\ TableHas(by_signer_public', TxOf(i).signer, TxOf(i).seq)

PassesEarlierChecks(i) ==
  /\ LocalBefore(i) \/ TxOf(i).fee >= FloorBefore(i)
  /\ client[TxOf(i).signer].balance >= TxOf(i).fee
  /\ TxOf(i).seq >= client[TxOf(i).signer].seq

C14_StrictBump ==
  [][(call.op = "none" /\ call'.op = "add") =>
       \A i \in 1..Len(call'.inputs) :
         (Occupied(i) /\ ~LocalBefore(i) /\ call'.accepted[i])
           => /\ TxOf(i).fee > BumpOf(OldOrder(i).fee)
              /\ TxOf(i).fee # OldOrder(i).fee
    ]_vars

\* C15: origin stickiness.  After every add, every entry of a signer in
\* is_local_account has origin Local in its order key and in its stored item
\* (by_hash and the backup store), whether it was admitted before or after
\* the signer became local.
C15_OriginSticks ==
  call.op = "add" =>
    \A S \in is_local_account :
      \A q \in RowSeqs(S) :
        /\ OrderOf(S, q).origin = "Local"
        /\ OrderOf(S, q).hash \in DOMAIN by_hash
             => by_hash[OrderOf(S, q).hash].origin = "Local"
        /\ OrderOf(S, q).hash \in DOMAIN db
             => DecodeItem(db[OrderOf(S, q).hash]).origin = "Local"

\* C16: after every add, remove and remove_old, is_local_account contains
\* only signers with at least one entry in the table: a signer leaves the set
\* when its row empties, and a Local input that fails verification for a
\* signer without entries does not leave the signer marked local.
C16_LocalAccountsHaveEntries ==
  Called => \A S \in is_local_account : RowSeqs(S) # {}

\* The age at block b of the entry of hash h.
AgeAt(h, b) ==
  IF b >= by_hash[h].inserted_block_number THEN b - by_hash[h].inserted_block_number ELSE 0

\* The entries remove_old is to select at block b: stored origin External,
\* and older than 128 blocks, or older than 16 blocks and costing more than
\* the balance of the account.
StaleAt(b) ==
  {h \in DOMAIN by_hash :
     /\ by_hash[h].origin = "External"
     /\ \/ AgeAt(h, b) > 128
        \/ AgeAt(h, b) > 16 /\ h.fee + h.quantity > client[h.signer].balance}

\* C17: remove_old at block b selects an entry of stored origin External iff
\* its age a = b - inserted_block_number (saturating) satisfies a > 128, or
\* a > 16 and cost > balance; the selected entries leave the pool, and an
\* External entry that is not selected and whose seq is at least the account
\* seq stays.
C17_ResidencyThresholds ==
  [][(call.op = "none" /\ call'.op = "remove_old") =>
       /\ call'.hashes = StaleAt(call'.at.block)
       /\ \A h \in StaleAt(call'.at.block) : h \notin DOMAIN by_hash'
       /\ \A h \in DOMAIN by_hash \ StaleAt(call'.at.block) :
            (by_hash[h].origin = "External" /\ h.seq >= client[h.signer].seq)
              => h \in DOMAIN by_hash' /\ by_hash'[h] = by_hash[h]
    ]_vars

\* A remove_old past the balance threshold took the entry that costs more
\* than the balance and left one of the same age that does not.
C17_Witness ==
  /\ call.op = "remove_old"
  /\ \E g \in call.hashes : g.fee + g.quantity > client[g.signer].balance
  /\ \E h \in DOMAIN by_hash :
       /\ by_hash[h].origin = "External"
       /\ AgeAt(h, call.at.block) > 16
       /\ h.fee + h.quantity = client[h.signer].balance

FullOfLocals ==
  /\ QueueLen(current) = queue_count_limit
  /\ QueueLen(future) = 0
  /\ \A o \in current.queue : o.origin = "Local" /\ by_hash[o.hash].origin = "Local"
  /\ Cardinality({o.hash.signer : o \in current.queue}) = QueueLen(current)
  /\ Len(call'.inputs) = 1
  /\ call'.inputs[1].origin = "External"
  /\ TxOf(1).signer \notin is_local_account
  /\ TxOf(1).seq = client[TxOf(1).signer].seq

\* The Local entries are as they were and the input is not in the pool.
LocalsRemainAlone ==
  /\ current' = current
  /\ future' = future
  /\ by_hash' = by_hash
  /\ by_signer_public' = by_signer_public
  /\ DOMAIN db' = DOMAIN db

\* C19 as stated: count limit with locals protected.  With a count limit of
\* 3 and three Local entries of distinct signers in current, adding a fourth
\* transaction of External origin, whatever its fee, returns LimitReached for
\* it and the three Local entries remain.
C19_FourthIsLimitReached ==
  [][(call.op = "none" /\ call'.op = "add" /\ queue_count_limit = 3 /\ FullOfLocals) =>
       /\ call'.results = <<[kind |-> "LimitReached"]>>
       /\ LocalsRemainAlone
    ]_vars

\* C19, amended: the fourth transaction gets LimitReached when its fee is
\* above the smallest fee of the Local entries, and InsufficientFee when it
\* is not; the Local entries remain in both cases.
C19_FourthIsRejectedOrEvicted ==
  [][(call.op = "none" /\ call'.op = "add" /\ FullOfLocals) =>
       /\ call'.results =
            IF TxOf(1).fee > SetMin({o.fee : o \in current.queue})
            THEN <<[kind |-> "LimitReached"]>>
            ELSE <<[kind |-> "InsufficientFee",
                    minimal |-> 1 + SetMin({o.fee : o \in current.queue}),
                    got |-> TxOf(1).fee]>>
       /\ LocalsRemainAlone
    ]_vars

\* The pool holds three Local entries of three signers in current, and the
\* External input of a fourth signer was admitted and evicted.
C19_Witness ==
  /\ call.op = "add"
  /\ call.inputs[1].origin = "External"
  /\ call.inputs[1].transaction.signer \notin LocalSigners
  /\ call.results = <<[kind |-> "LimitReached"]>>
  /\ queue_count_limit = 3
  /\ QueueLen(current) = 3
  /\ {o.hash.signer : o \in current.queue} = LocalSigners
  /\ \A o \in current.queue : o.origin = "Local"

\* The smallest seq >= c that is missing from the row of S when the call
\* returns.
FirstGapAfter(S, c) == SetMin({q \in c..(MaxSeq + 1) : q \notin DOMAIN by_signer_public'[S]})

\* C20: monotonicity regression.  When add is called with a block number
\* below last_block_number or a timestamp below last_timestamp, the boundary
\* of every signer in the pool is recomputed from the account seq of the
\* oracle: it is the smallest seq >= the account seq that is missing from the
\* row of the signer, and the entries of the signer are Current below it and
\* Future from it on.
C20_RegressionRebases ==
  [][(/\ call.op = "none"
      /\ call'.op = "add"
      /\ call'.at.block < last_block_number \/ call'.at.time < last_timestamp) =>
       \A S \in DOMAIN by_signer_public' :
         /\ GetOr(next_seqs', S, client[S].seq) = FirstGapAfter(S, client[S].seq)
         /\ \A q \in DOMAIN by_signer_public'[S] :
              /\ q >= client[S].seq
              /\ by_signer_public'[S][q].tag =
                   IF q < FirstGapAfter(S, client[S].seq) THEN "Current" ELSE "Future"
    ]_vars

\* An add called with a block number below the last one returned with
\* entries of s1 on both sides of the boundary.
C20_Witness ==
  /\ call.op = "add"
  /\ call.at.block < call.last.block
  /\ \E q, r \in RowSeqs("s1") : TagOf("s1", q) = "Current" /\ TagOf("s1", r) = "Future"

(***************************************************************************)
(* The queries.                                                            *)
(***************************************************************************)
\* The items of a queue of the pool in priority order.
PriorityItems(q) ==
  [i \in 1..Len(SortedOrders(q.queue)) |-> by_hash[SortedOrders(q.queue)[i].hash]]

\* Those of them inserted within the range.
ItemsIn(q, range) ==
  SelectSeq(PriorityItems(q),
            LAMBDA t : range.start <= t.inserted_timestamp /\ t.inserted_timestamp < range.end)

\* The encoded size of the first k items of a list.
SizeOfFirst(items, k) == SumOf([i \in 1..k |-> RlpLen(items[i].tx)])

\* The greatest timestamp of the first k items of a list, None for k = 0.
LastOfFirst(items, k) ==
  IF k = 0 THEN None
  ELSE Some(CHOOSE t \in {items[i].inserted_timestamp : i \in 1..k} :
              \A i \in 1..k : items[i].inserted_timestamp <= t)

\* The first k items are what is returned: they stay below the limit, the
\* next one, if any, does not.
IsCut(items, k, size_limit) ==
  /\ k > 0 => SizeOfFirst(items, k) < size_limit
  /\ k < Len(items) => SizeOfFirst(items, k + 1) >= size_limit

\* C21: top_transactions(size_limit, range) returns the longest prefix of
\* the entries of current inserted within the range, taken in priority
\* order, whose running sum of encoded sizes stays strictly below size_limit:
\* the first entry that brings the sum to size_limit or above is left out
\* with everything after it, and last_timestamp is the greatest inserted
\* timestamp of the entries returned, None when there is none.
C21_TopIsLongestPrefix ==
  call.op = "top_transactions" =>
    \E k \in 0..Len(ItemsIn(current, call.range)) :
      /\ IsCut(ItemsIn(current, call.range), k, call.size_limit)
      /\ call.result.transactions = [i \in 1..k |-> ItemsIn(current, call.range)[i].tx]
      /\ call.result.last_timestamp = LastOfFirst(ItemsIn(current, call.range), k)

\* A larger entry is left out on a tie with the limit while a later smaller
\* one would have fitted, an entry outside the range having been skipped.
C21_Witness ==
  /\ call.op = "top_transactions"
  /\ call.result.transactions = <<>>
  /\ Len(ItemsIn(current, call.range)) >= 2
  /\ Len(ItemsIn(current, call.range)) < Len(PriorityItems(current))
  /\ RlpLen(ItemsIn(current, call.range)[1].tx) = call.size_limit
  /\ RlpLen(ItemsIn(current, call.range)[2].tx) < call.size_limit

\* Two entries inserted at different timestamps are returned.
C21_WitnessLast ==
  /\ call.op = "top_transactions"
  /\ Len(call.result.transactions) = 2
  /\ \E i, j \in 1..2 :
       PriorityItems(current)[i].inserted_timestamp
         < PriorityItems(current)[j].inserted_timestamp

\* What the scan of current has been charged when it returns its first k
\* items: their sizes and, when it was cut short, the size of the next one.
ChargedAfter(items, k) == SizeOfFirst(items, IF k < Len(items) THEN k + 1 ELSE k)

\* The first m items of future are what is appended after a scan of current
\* charged so much.
IsCutAfter(charged, items, m, size_limit) ==
  /\ m > 0 => charged + SizeOfFirst(items, m) < size_limit
  /\ m < Len(items) => charged + SizeOfFirst(items, m + 1) >= size_limit

\* The greater of two optional timestamps.
Later(a, b) ==
  IF a.kind = "None" THEN b
  ELSE IF b.kind = "None" THEN a
  ELSE IF a.value < b.value THEN b ELSE a

\* C22: get_future_pending_transactions(size_limit, range) returns what
\* top_transactions returns followed by a prefix of future in priority order
\* charged against the same size budget: future entries are appended only
\* while the size of everything scanned so far stays strictly below
\* size_limit, so when the current part was cut short no future entry is
\* returned.
C22_FutureSharesBudget ==
  call.op = "get_future_pending_transactions" =>
    \E k \in 0..Len(ItemsIn(current, call.range)) :
      \E m \in 0..Len(ItemsIn(future, call.range)) :
        /\ IsCut(ItemsIn(current, call.range), k, call.size_limit)
        /\ IsCutAfter(ChargedAfter(ItemsIn(current, call.range), k),
                      ItemsIn(future, call.range), m, call.size_limit)
        /\ k < Len(ItemsIn(current, call.range)) => m = 0
        /\ call.result.transactions
             = [i \in 1..k |-> ItemsIn(current, call.range)[i].tx]
                 \o [i \in 1..m |-> ItemsIn(future, call.range)[i].tx]
        /\ call.result.last_timestamp
             = Later(LastOfFirst(ItemsIn(current, call.range), k),
                     LastOfFirst(ItemsIn(future, call.range), m))

\* The current part is cut short at an entry larger than the first entry of
\* future, which would have fitted after what was returned.
C22_Witness ==
  /\ call.op = "get_future_pending_transactions"
  /\ Len(call.result.transactions) < Len(ItemsIn(current, call.range))
  /\ ItemsIn(future, call.range) # <<>>
  /\ SumOf([i \in 1..Len(call.result.transactions) |-> RlpLen(call.result.transactions[i])])
       + RlpLen(ItemsIn(future, call.range)[1].tx) < call.size_limit

\* Entries of current and of future are returned together.
C22_WitnessBoth ==
  /\ call.op = "get_future_pending_transactions"
  /\ Len(call.result.transactions) > Len(ItemsIn(current, call.range))
  /\ ItemsIn(current, call.range) # <<>>

\* The order key of a transaction returned by a query.
KeyOf(tx) == OrderOf(tx.signer, tx.seq)

\* Local before External, then the lower height, then the higher fee.
KeyNotAfter(a, b) ==
  \/ OriginRank(a.origin) < OriginRank(b.origin)
  \/ /\ a.origin = b.origin
     /\ \/ a.seq_height < b.seq_height
        \/ a.seq_height = b.seq_height /\ a.fee >= b.fee

\* C23 (the order): top_transactions lists the entries in order-key order:
\* Local before External, the lower height first, and within the same
\* height the higher fee first.
C23_KeyOrder ==
  call.op = "top_transactions" =>
    \A i, j \in 1..Len(call.result.transactions) :
      i < j => KeyNotAfter(KeyOf(call.result.transactions[i]),
                           KeyOf(call.result.transactions[j]))

\* C23: top_transactions lists the entries in order-key order, and
\* consequently the transactions of one signer always appear in strictly
\* increasing seq order.
C23_SignerSeqsIncrease ==
  call.op = "top_transactions" =>
    \A i, j \in 1..Len(call.result.transactions) :
      i < j =>
        /\ KeyNotAfter(KeyOf(call.result.transactions[i]),
                       KeyOf(call.result.transactions[j]))
        /\ call.result.transactions[i].signer = call.result.transactions[j].signer
             => call.result.transactions[i].seq < call.result.transactions[j].seq

(***************************************************************************)
(* remove_all.                                                             *)
(***************************************************************************)
\* |current| + |future| = |by_hash| = |SignerIndex|.
SizesAgree ==
  /\ QueueLen(current) + QueueLen(future) = Cardinality(DOMAIN by_hash)
  /\ TableLen(by_signer_public) = Cardinality(DOMAIN by_hash)

\* remove_all leaves the three sizes equal.
C24_SizesAgreeAfterClear == call.op = "remove_all" => SizesAgree

\* The add that follows remove_all completes: its assert_eq! hold.
C24_ReAddCompletes == panic # "assert_eq"

\* C24: remove_all followed by add of the same inputs, with the same
\* oracle, block number and timestamp, completes and gives every input the
\* final classification it had before, and |current| + |future| = |by_hash|
\* = |SignerIndex| holds after remove_all and after the second add.
C24_ClearThenReAdd ==
  /\ C24_SizesAgreeAfterClear
  /\ C24_ReAddCompletes
  /\ call.op = "add" => SizesAgree

(***************************************************************************)
(* The order of the checks.                                                *)
(***************************************************************************)
\* The first check input i of the call that returns fails, in the order fee
\* floor, balance, duplicate, seq of the account, replacement; Ok if none.
FirstFailure(i) ==
  IF ~LocalBefore(i) /\ TxOf(i).fee < FloorBefore(i) THEN "InsufficientFee"
  ELSE IF client[TxOf(i).signer].balance < TxOf(i).fee THEN "InsufficientBalance"
  ELSE IF TxOf(i) \in DOMAIN PoolBefore(i).by_hash THEN "TransactionAlreadyImported"
  ELSE IF TxOf(i).seq < client[TxOf(i).signer].seq THEN "Old"
  ELSE IF ~LocalBefore(i) /\ Occupied(i) /\ TxOf(i).fee < BumpOf(OldOrder(i).fee)
  THEN "TooCheapToReplace"
  ELSE "Ok"

\* C25: verify_transaction applies its checks in a fixed order and reports
\* the first that fails: InsufficientFee (inputs not Local only),
\* InsufficientBalance (balance < fee), TransactionAlreadyImported, Old (seq
\* below the seq of the account), TooCheapToReplace (inputs not Local only);
\* the failure of one input does not stop the inputs after it.
C25_FirstFailureReported ==
  [][(call.op = "none" /\ call'.op = "add") =>
       /\ Len(call'.results) = Len(call'.inputs)
       /\ \A i \in 1..Len(call'.inputs) :
            IF FirstFailure(i) = "Ok"
            THEN call'.accepted[i]
            ELSE ~call'.accepted[i] /\ call'.results[i].kind = FirstFailure(i)
    ]_vars

\* The first input of a batch failed two checks, the balance and the seq of
\* the account, and was given the error of the first; the input after it was
\* admitted.
C25_Witness ==
  /\ call.op = "add"
  /\ Len(call.inputs) = 2
  /\ call.results[1].kind = "InsufficientBalance"
  /\ call.inputs[1].transaction.seq < client[call.inputs[1].transaction.signer].seq
  /\ call.results[2].kind \in {"Current", "Future"}

(***************************************************************************)
(* The tag New.                                                            *)
(***************************************************************************)
\* The tags of a table.
TagsOf(table) == {table[S][q].tag : S \in DOMAIN table, q \in Seqs}

\* C26: the tag New never survives a public operation: when add or
\* recover_from_db returns every entry of SignerIndex is tagged Current or
\* Future, and remove never meets an entry tagged New: the unreachable!()
\* arms of the result mapping of add and of remove are never reached.
C26_NewNeverSurvives ==
  /\ \A e \in Entries : TagOf(e[1], e[2]) \in {"Current", "Future"}
  /\ panic # "unreachable_after_write"
  /\ Called =>
       \A S \in DOMAIN Recovered.by_signer_public :
         \A q \in DOMAIN Recovered.by_signer_public[S] :
           Recovered.by_signer_public[S][q].tag \in {"Current", "Future"}
  /\ panic = "none" =>
       \A hashes \in SUBSET (DOMAIN by_hash) :
         remove(Pool, HashList(hashes), SeqsOf(client), last_block_number,
                last_timestamp).panic # "unreachable"

\* add returned with the entries of its two inputs, one Current and one
\* Future, and the store it wrote recovers to a pool with entries.
C26_Witness ==
  /\ call.op = "add"
  /\ Len(call.inputs) = 2
  /\ call.results[1].kind = "Future"
  /\ call.results[2].kind = "Current"
  /\ DOMAIN Recovered.by_signer_public # {}

(***************************************************************************)
(* The boundary, first_seqs and the heights.                               *)
(***************************************************************************)
\* The seq the entries of S are counted from.
FirstSeqOf(S) == GetOr(first_seqs, S, 0)

\* The boundary of S: next_seqs[S], or first_seqs[S] when it is absent.
BoundaryOf(S) == GetOr(next_seqs, S, FirstSeqOf(S))

\* The smallest seq >= first_seqs[S] that is missing from the row of S.
FirstGapOf(S) == SetMin({q \in FirstSeqOf(S)..(MaxSeq + 1) : q \notin RowSeqs(S)})

\* C27: after every add, remove and remove_old, for every signer present the
\* boundary next_seqs[signer] (first_seqs[signer] when absent) is the
\* smallest seq >= first_seqs[signer] that is not in the row of the signer,
\* also after an eviction and after the removal of a Future entry.
C27_BoundaryIsFirstGap ==
  Called => \A S \in DOMAIN by_signer_public : BoundaryOf(S) = FirstGapOf(S)

\* C28: after every add, remove and remove_old every Current entry has
\* first_seqs[signer] <= seq < boundary and every Future entry has
\* seq >= boundary, the boundary being next_seqs[signer], or
\* first_seqs[signer] when it is absent.
C28_TagsFollowBoundary ==
  Called =>
    \A e \in Entries :
      /\ TagOf(e[1], e[2]) = "Current"
           => FirstSeqOf(e[1]) <= e[2] /\ e[2] < BoundaryOf(e[1])
      /\ TagOf(e[1], e[2]) = "Future" => e[2] >= BoundaryOf(e[1])

\* An add that evicted an entry returned with a Current entry below the
\* boundary of its signer, the boundary lying past a missing seq.
C28_Witness ==
  /\ call.op = "add"
  /\ call.evicted # {}
  /\ \E S \in DOMAIN by_signer_public :
       /\ \E q \in RowSeqs(S) : TagOf(S, q) = "Current" /\ q < BoundaryOf(S)
       /\ FirstGapOf(S) < BoundaryOf(S)

\* No entry lies below first_seqs of its signer.
NoneBelowFirstSeq == \A e \in Entries : e[2] >= FirstSeqOf(e[1])

\* C29 (the state): after every add, remove and remove_old no signer has an
\* entry with a seq strictly below first_seqs[signer].
C29_NoneBelowFirstSeq == Called => NoneBelowFirstSeq

\* The entries the oracle seq has advanced past, as the call finds them.
StaleEntries == {e \in Entries : e[2] < client[e[1]].seq}

\* The order of entry e is gone from by_hash, the table, the queues and the
\* backup store when the call returns.
GoneAfter(e) ==
  /\ OrderOf(e[1], e[2]).hash \notin DOMAIN by_hash'
  /\ OrderOf(e[1], e[2]).hash \notin DOMAIN db'
  /\ \A o \in current'.queue \cup future'.queue : o.hash # OrderOf(e[1], e[2]).hash
  /\ ~TableHas(by_signer_public', e[1], e[2])

\* C29: after every add, remove and remove_old no signer has an entry with a
\* seq strictly below first_seqs[signer]; when the oracle seq has advanced
\* past an entry, the next add or remove deletes it from by_hash, from
\* SignerIndex, from its queue and from the backup.
C29_StaleEntriesDeleted ==
  [][(call.op = "none" /\ call'.op \in {"add", "remove", "remove_old"}) =>
       /\ \A e \in Entries' : e[2] >= GetOr(first_seqs', e[1], 0)
       /\ \A e \in StaleEntries : GoneAfter(e)
    ]_vars

\* A remove that was given no hash returned with the row of s1 gone and
\* first_seqs at the seq the account of s1 has advanced to, the store empty.
C29_Witness ==
  /\ call.op = "remove"
  /\ call.hashes = {}
  /\ next_transaction_id > 0
  /\ "s1" \notin DOMAIN by_signer_public
  /\ client["s1"].seq > 0
  /\ GetOr(first_seqs, "s1", 0) = client["s1"].seq
  /\ db = EmptyMap

\* Every entry of a table has height seq - first_seq of its signer.
HeightsFrom(table, firsts) ==
  \A S \in DOMAIN table :
    \A q \in DOMAIN table[S] : table[S][q].order.seq_height = q - GetOr(firsts, S, 0)

\* C30 (the calls of the pool): after every add, remove and remove_old the
\* order key of every entry has height = seq - first_seqs[signer], the
\* default being 0.
C30_HeightsAfterCalls == Called => HeightsFrom(by_signer_public, first_seqs)

StoreIs(store, items) ==
  /\ DOMAIN store = DOMAIN items
  /\ \A h \in DOMAIN items : store[h] = EncodeItem(items[h])

\* C31: each add, remove and remove_old commits one batch to the store,
\* after every in-memory mutation of the call, limit enforcement and the
\* assertions included: the store changes only when such a call returns,
\* and then it holds all the changes of the call, never a part of them; a
\* call that fails an assertion writes nothing.
C31_OneBatchPerCall ==
  [][/\ (call.op = "none" /\ call'.op \in {"add", "remove", "remove_old"})
          => StoreIs(db', by_hash')
     /\ db' # db => call.op = "none" /\ call'.op \in {"add", "remove", "remove_old"}
     /\ call'.op = "aborted" => db' = db
    ]_vars

\* An add that queued one input and evicted another returned: the store
\* holds the first and not the second.
C31_Witness ==
  /\ call.op = "add"
  /\ \E i \in 1..Len(call.inputs) :
       call.results[i].kind = "Current" /\ call.inputs[i].transaction \in DOMAIN db
  /\ \E o \in call.evicted : o.hash \notin DOMAIN db
  /\ StoreIs(db, by_hash)

(***************************************************************************)
(* Eviction.                                                               *)
(***************************************************************************)
\* The pool of the call that returns as enforce_limit finds it.
BeforeLimit ==
  reconcile_add(PoolBefore(Len(call'.inputs) + 1), call'.at.block, call'.at.time, client)

\* The orders enforce_limit took out of a queue rank after those it left.
EvictedRankLast(before, after) ==
  \A o \in before.queue \ after.queue :
    /\ o.origin # "Local"
    /\ \A k \in after.queue : OrderLess(k, o)

\* C32: when enforce_limit evicts from a queue, the evicted entries are the
\* lowest-priority ones: every evicted order ranks after every order that
\* stays in the same queue, so an External input that meets the floor of a
\* full pool displaces the lowest-priority entry that is not Local and not
\* one of higher priority.
C32_EvictedRankLast ==
  [][(call.op = "none" /\ call'.op = "add") =>
       /\ EvictedRankLast(BeforeLimit.current, current')
       /\ EvictedRankLast(BeforeLimit.future, future')
       /\ call'.evicted
            = (BeforeLimit.current.queue \ current'.queue)
                \cup (BeforeLimit.future.queue \ future'.queue)
    ]_vars

\* An External input that met the floor of a full current was queued and an
\* older entry of a lower fee was evicted for it.
C32_Witness ==
  /\ call.op = "add"
  /\ \E i \in 1..Len(call.inputs) :
       /\ call.inputs[i].origin = "External"
       /\ call.results[i].kind = "Current"
       /\ \E o \in call.evicted :
            /\ o.fee < call.inputs[i].transaction.fee
            /\ \A j \in 1..Len(call.inputs) : call.inputs[j].transaction # o.hash

(***************************************************************************)
(* Insertion ids.                                                          *)
(***************************************************************************)
\* The items of a map have ids of their own, all below next.
IdsBelow(items, next) ==
  /\ \A h \in DOMAIN items : items[h].insertion_id < next
  /\ \A h, k \in DOMAIN items : h # k => items[h].insertion_id # items[k].insertion_id

\* Input i of the call that returns takes the next id if it is accepted, and
\* none if it is not.
TakesNextId(i) ==
  IF call'.accepted[i]
  THEN /\ PoolBefore(i + 1).by_hash[TxOf(i)].insertion_id = PoolBefore(i).next_transaction_id
       /\ PoolBefore(i + 1).next_transaction_id = PoolBefore(i).next_transaction_id + 1
  ELSE PoolBefore(i + 1).next_transaction_id = PoolBefore(i).next_transaction_id

\* C33: next_transaction_id never decreases and insertion ids are unique:
\* every accepted input of add receives the current next_transaction_id,
\* which is then incremented, so the ids grow in input order across calls,
\* no two entries of the pool share an id, and after recover_from_db
\* next_transaction_id is greater than the id of every recovered entry.
C33_IdsGrowAndDiffer ==
  [][/\ next_transaction_id' >= next_transaction_id
     /\ IdsBelow(by_hash, next_transaction_id)
     /\ IdsBelow(Recovered.by_hash, Recovered.next_transaction_id)
     /\ (call.op = "none" /\ call'.op = "add") =>
          /\ \A i \in 1..Len(call'.inputs) : TakesNextId(i)
          /\ next_transaction_id' = PoolBefore(Len(call'.inputs) + 1).next_transaction_id
          /\ IdsBelow(by_hash', next_transaction_id')
    ]_vars

\* An add returned with its input queued under id 1 beside an entry of id 0,
\* and the store recovers to a pool whose next id is 2.
C33_Witness ==
  /\ call.op = "add"
  /\ \E i \in 1..Len(call.inputs) :
       /\ call.accepted[i]
       /\ call.inputs[i].transaction \in DOMAIN by_hash
       /\ by_hash[call.inputs[i].transaction].insertion_id = 1
  /\ \E h \in DOMAIN by_hash : by_hash[h].insertion_id = 0
  /\ next_transaction_id = 2
  /\ Recovered.next_transaction_id = 2

(***************************************************************************)
(* The fee floor of an empty queue.                                        *)
(***************************************************************************)
\* effective_minimum_fee reads minimum_fee of current in pool p.
ReadsMinimumFee(p) == QueueLen(p.current) >= p.queue_count_limit

\* C34: minimum_fee of current is never queried while current is empty:
\* verify_transaction, through effective_minimum_fee, reads it only in
\* states where current holds an entry, whatever queue_count_limit is, 0
\* included.
C34_FloorReadOnlyWhenFilled ==
  [][(call.op = "none" /\ call'.op = "add") =>
       \A i \in 1..Len(call'.inputs) :
         ReadsMinimumFee(PoolBefore(i)) => PoolBefore(i).current.queue # {}
    ]_vars

(***************************************************************************)
(* Two inputs at one slot.                                                 *)
(***************************************************************************)
\* C35: in add, whenever an accepted input displaces a prior order at its
\* (signer, seq), that order is tagged Current or Future, never New: for
\* every batch, one with two different transactions of the same signer and
\* seq of which the second passes verification included, add completes
\* without reaching the unreachable!() arm of the replacement branch or of
\* add_new_orders_to_queue.
C35_ReplacedIsNeverNew ==
  [][(call.op = "none" /\ call'.op \in {"add", "aborted"}) => panic' # "unreachable"]_vars

(***************************************************************************)
(* The removal of Future entries.                                          *)
(***************************************************************************)
\* The entries whose transaction is one of the given hashes.
EntriesOf(hashes) == {e \in Entries : OrderOf(e[1], e[2]).hash \in hashes}

\* A call of remove that deletes entries, all of them tagged Future, at an
\* instant that regresses neither the block number nor the timestamp.
RemovesOnlyFuture ==
  /\ call.op = "none"
  /\ call'.op = "remove"
  /\ call'.hashes # {}
  /\ \A e \in EntriesOf(call'.hashes) : TagOf(e[1], e[2]) = "Future"
  /\ call'.at.block >= last_block_number
  /\ call'.at.time >= last_timestamp

\* C36: when remove deletes only entries tagged Future, with unchanged
\* account seqs and non-regressing block number and timestamp, every other
\* entry keeps its tag and queue (no Future entry of that signer is promoted
\* to Current) and the next_seq boundary of the signer is unchanged.
C36_FutureRemovalChangesNothingElse ==
  [][RemovesOnlyFuture =>
       /\ \A e \in Entries \ EntriesOf(call'.hashes) :
            /\ e[1] \in DOMAIN by_signer_public'
            /\ e[2] \in DOMAIN by_signer_public'[e[1]]
            /\ by_signer_public'[e[1]][e[2]] = by_signer_public[e[1]][e[2]]
            /\ (OrderOf(e[1], e[2]) \in current.queue) = (OrderOf(e[1], e[2]) \in current'.queue)
            /\ (OrderOf(e[1], e[2]) \in future.queue) = (OrderOf(e[1], e[2]) \in future'.queue)
       /\ \A S \in DOMAIN by_signer_public' :
            GetOr(next_seqs', S, GetOr(first_seqs', S, 0)) = BoundaryOf(S)]_vars

(***************************************************************************)
(* Inputs that fail verification.                                          *)
(***************************************************************************)
\* The batch of the call that returns, input i left out.
BatchWithout(i) ==
  SubSeq(call'.inputs, 1, i - 1) \o SubSeq(call'.inputs, i + 1, Len(call'.inputs))

\* The pool the call that returns would have left without input i.
PoolWithout(i) == add(Pool, BatchWithout(i), call'.at.block, call'.at.time, client)

\* C37: an input of add that fails verification leaves no trace: no entry
\* for it is put in by_hash, SignerIndex, either queue or the backup batch,
\* no insertion id is consumed, the entry already at its (signer, seq) slot
\* is untouched, and is_local_account is the same as if the input had not
\* been in the batch.
C37_RejectedLeavesNoTrace ==
  [][(call.op = "none" /\ call'.op = "add") =>
       \A i \in 1..Len(call'.inputs) :
         VerdictOf(i).kind # "Ok" =>
           /\ Untouched(i)
           /\ PoolBefore(i + 1).next_transaction_id = PoolBefore(i).next_transaction_id
           /\ PoolWithout(i).panic = "none" =>
                 is_local_account' = PoolWithout(i).is_local_account]_vars

(***************************************************************************)
(* Recovery after the accounts have moved on.                              *)
(***************************************************************************)
\* C38: after recover_from_db no entry whose seq is below the account seq
\* the oracle gives for its signer is classified Current, or kept at all:
\* when the account seq advanced between the last write and the recovery,
\* the stale entries of the store are not offered to the block proposer.
C38_RecoveryDropsStale ==
  /\ \A S \in DOMAIN Recovered.by_signer_public :
       \A q \in DOMAIN Recovered.by_signer_public[S] : q >= client[S].seq
  /\ \A o \in Recovered.current.queue : o.hash.seq >= client[o.hash.signer].seq

(***************************************************************************)
(* The order in which the signers are reconciled.                          *)
(***************************************************************************)
\* The orders in which keys() may yield the signers S.
KeyOrders(S) ==
  {keys \in [1..Cardinality(S) -> S] :
     \A i, j \in 1..Cardinality(S) : keys[i] = keys[j] => i = j}

\* The call that returns ended as p does.
EndsAs(p) ==
  /\ p.panic = "none"
  /\ PoolBecomes(p)
  /\ db' = db_write(db, p.batch)

\* The pool when the loop over the signers of add begins.
PoolAfterInputs(inputs, at) ==
  add_inputs(Pool @@ CallLocals, inputs, at.block, at.time, client)

\* add from that pool, its loop visiting the signers in the order keys.
AddVisiting(p, keys, at) ==
  check_results(
    assert_synced(
      enforce_limit(add_signers(p, keys, at.block, at.time, client)),
      at.block, at.time))

\* The pool when the loop over the signers of remove begins.
PoolAfterHashes(hashes) ==
  remove_hashes(Pool @@ CallLocals, HashList(hashes), SeqsOf(client))

\* remove from that pool, its loop visiting the signers in the order keys.
RemoveVisiting(p, keys, at) ==
  assert_synced(remove_signers(p, keys, SeqsOf(client), at.block, at.time),
                at.block, at.time)

\* C39: the outcome of add and of remove does not depend on the order in
\* which the signers are reconciled: runs from the same state with the same
\* arguments and oracle that visit the signers in different orders end in
\* the same pool and store and, for add, return the same result vector.
C39_KeyOrderIsImmaterial ==
  [][/\ (call.op = "none" /\ call'.op = "add") =>
          \A at \in {call'.at} : \A p \in {PoolAfterInputs(call'.inputs, at)} :
            \A keys \in KeyOrders(DOMAIN p.by_signer_public) :
              \A q \in {AddVisiting(p, keys, at)} :
                EndsAs(q) /\ import_results(q) = call'.results
     /\ (call.op = "none" /\ call'.op \in {"remove", "remove_old"}) =>
          \A at \in {call'.at} : \A p \in {PoolAfterHashes(call'.hashes)} :
            \A keys \in KeyOrders(DOMAIN p.by_signer_public) :
              \A q \in {RemoveVisiting(p, keys, at)} : EndsAs(q)]_vars

\* An add returned that reconciled two signers, one of which has its entry
\* in current and the other in future.
C39_Witness ==
  /\ call.op = "add"
  /\ \E i, j \in 1..Len(call.inputs) :
       /\ call.inputs[i].transaction.signer # call.inputs[j].transaction.signer
       /\ call.results[i].kind = "Current"
       /\ call.results[j].kind = "Future"

(***************************************************************************)
(* The replacement threshold at the top of the word.                       *)
(***************************************************************************)
\* Input i was admitted as External.
ExternalBefore(i) == effective_origin(PoolBefore(i), call'.inputs[i]) = "External"

\* C40: the replacement threshold old_fee + (old_fee >> fee_bump_shift) is
\* computed without 64-bit wraparound for every old_fee that can be stored
\* in the pool: no add stops at an overflow of the sum, and after a
\* successful External replacement the fee of the (signer, seq) slot is at
\* least the fee it held before.
C40_ReplacementNeverLowersFee ==
  [][/\ (call.op = "none" /\ call'.op = "aborted") => panic' # "overflow"
     /\ (call.op = "none" /\ call'.op = "add") =>
          \A i \in 1..Len(call'.inputs) :
            (call'.accepted[i] /\ Occupied(i) /\ ExternalBefore(i)) =>
              TxOf(i).fee >= OldOrder(i).fee]_vars

=============================================================================
